---- MODULE Spec2Model ----
(***************************************************************************)
(* Timing combinators of monad::IO (src/include/io_monad.hpp): timeout,    *)
(* delay, retry_exponential_if and poll_if, run over a wrapped IO on a     *)
(* single-threaded boost::asio executor with steady timers (Spec);         *)
(* poll_with_state (SpecPws); the thunks of pure, from_result and fail     *)
(* (SpecRun); map, then, catch_then, zip_io and collect_io (SpecComb);     *)
(* ProxyPool of src/include/proxy_pool.hpp (SpecProxy).                    *)
(***************************************************************************)
EXTENDS Integers, Sequences, FiniteSets, TLC

VARIABLES
  kind,            \* combinator wrapped around the inner IO
  inner,           \* behaviour of the wrapped IO's thunk
  faults,          \* whether the executor may fail a pending wait
  pc,              \* "constructed" (IO built, not run) or "running"
  duration,        \* timeout / delay: std::chrono::milliseconds duration
  initial_delay,   \* retry_exponential_if: initial_delay
  interval,        \* poll_if: interval
  max_attempts,    \* retry_exponential_if / poll_if: max_attempts
  should_retry,    \* retry_exponential_if: error codes should_retry accepts
  satisfied,       \* poll_if: values the satisfied predicate accepts
  retry_on_error,  \* poll_if: error codes retry_on_error accepts
  attempt,         \* *state->attempt
  current_delay,   \* current_delay captured by the pending attempt / timer
  fired,           \* timeout: *fired
  delivered,       \* delay: *delivered
  timer_fired,     \* delay: *timer_fired
  result,          \* delay: *result (std::optional), <<>> or <<r>>
  timer,           \* the steady_timer of the pending wait
  io,              \* the wrapped IO's current run
  counter,         \* state captured by the wrapped IO's thunk (tests)
  closure,         \* the self-referential try_run / do_attempt function
  cleanup_posted,  \* poll_if: cleanup task posted to the io_context
  now,             \* steady clock, in milliseconds
  log,             \* observed events, in order
  hooks,           \* poll_with_state: whether PollWithStateHooks are set
  on_exhausted,    \* poll_with_state: behaviour of on_exhausted
  ctor,            \* IO::pure, from_result or fail: how the IO was built
  vtype,           \* the type T of an IO<T> built by them
  cell,            \* the value or error the thunk of that IO captured
  runs,            \* the results its runs delivered, in order
  items,           \* zip_io / collect_io: number of IOs given
  idx,             \* collect_io: *idx; zip_io: IOs that completed with Ok
  out,             \* collect_io: *out; zip_io: the values v1 captured
  proxies,         \* ProxyPool: *proxies_, the entry list
  blacklist,       \* ProxyPool: blacklist_, pairs <<entry, expiry>>
  index,           \* ProxyPool: index_, counted from 0
  served,          \* ProxyPool: the calls of next since the last change
  changed,         \* ProxyPool: the call that has just changed the list
  snapshot,        \* ProxyPool: the ProxyList that proxies_ points to
  heap,            \* the ProxyLists proxies_ let go of that are alive yet
  handles,         \* the pointers to a ProxySetting that callers hold
  url,             \* the URL of the exchange, ex->url
  no_proxy,        \* the value of NO_PROXY in the environment
  bypass,          \* what should_bypass_env_proxy_for_url returned
  exchange,        \* what the caller set: request, params, proxy
  ex_proxy,        \* ex->proxy, the proxy of the exchange
  pool_proxy,      \* what borrow_proxy() has to give
  server,          \* the response of the server to a request, by path
  st,              \* http_request: the RedirectState
  session,         \* the session that is carrying a request
  sent,            \* the requests handed to sessions, in order
  answers,         \* the calls of the callback given to http_request
  outcome,         \* the results the IO of http_request_io delivered
  stopped,         \* HttpClientManager::stopped_
  work_guard,      \* whether the work guard of the io_context is held
  ioc_stopped,     \* whether ioc->stop() was called
  thread_pool,     \* the worker threads: running, exited or joined
  callers,         \* the threads that call stop(), and where they are
  teardown,        \* how often each step of the teardown was performed
  options_,        \* JitteredExponentialBackoff::options_
  current_delay_,  \* JitteredExponentialBackoff::current_delay_
  next_delay,      \* the last call of NextDelay: what it found and returned
  handlers,        \* timeout on a thread pool: where its two handlers are
  mutex,           \* ProxyPool::mutex_: the thread that holds it, or "free"
  pool_calls,      \* the calls of ProxyPool operations by each thread
  serial,          \* the pool had the calls run one at a time, in the
                   \* order in which they let go of the mutex
  downstream,      \* a callback that throws: the calls it received
  step_owners      \* collect_io: what holds a shared_ptr to *step

vars == <<kind, inner, faults, pc, duration, initial_delay, interval,
          max_attempts,
          should_retry, satisfied, retry_on_error, attempt, current_delay,
          fired, delivered, timer_fired, result, timer, io, counter, closure,
          cleanup_posted, now, log, hooks, on_exhausted, ctor, vtype, cell,
          runs, items, idx, out, proxies, blacklist, index, served, changed,
          snapshot, heap, handles, url, no_proxy, bypass, exchange,
          ex_proxy, pool_proxy, server, st, session, sent, answers, outcome,
          stopped, work_guard, ioc_stopped, thread_pool, callers, teardown,
          options_, current_delay_, next_delay, handlers, mutex, pool_calls,
          serial, downstream, step_owners>>

\* the state of the timing combinators
ioVars == <<kind, inner, faults, pc, duration, initial_delay, interval,
            max_attempts, should_retry, satisfied, retry_on_error, attempt,
            current_delay, fired, delivered, timer_fired, result, timer, io,
            counter, closure, cleanup_posted, now, log>>

\* the state of poll_with_state beyond that of poll_if
pwsVars == <<hooks, on_exhausted>>

\* the state of an IO built by pure, from_result or fail
runVars == <<ctor, vtype, cell, runs>>

\* the state of a run of zip_io or collect_io
aggVars == <<items, idx, out>>

\* the state of a ProxyPool
proxyVars == <<proxies, blacklist, index, served, changed, snapshot, heap,
               handles>>

\* the state of a call of http_request_io, http_request or
\* http_request_pooled
httpVars == <<url, no_proxy, bypass, exchange, ex_proxy, pool_proxy, server,
              st, session, sent, answers, outcome>>

\* the state of the executor of an HttpClientManager
mgrVars == <<stopped, work_guard, ioc_stopped, thread_pool, callers,
             teardown>>

\* the state of a JitteredExponentialBackoff
backoffVars == <<options_, current_delay_, next_delay>>

\* the state of the threads that call a ProxyPool
lockVars == <<mutex, pool_calls, serial>>

\* the state the aggregators leave alone, but for the owners of *step
sideNoStep == <<backoffVars, handlers, lockVars, downstream>>

\* the state the specifications of the other parts leave alone
sideVars == <<sideNoStep, step_owners>>

\* the state of the HTTP client
clientVars == <<httpVars, mgrVars>>

\* the variables the timing combinators of IO leave alone
extVars == <<pwsVars, runVars, aggVars, proxyVars, clientVars, sideVars>>

\* ---------------------------------------------------------------- bounds
MaxAttempts == 3
MaxDelay == 2
MaxTime == 10

\* ------------------------------------------------------- results, errors
Ok(v) == [ok |-> TRUE, code |-> 0, what |-> "", value |-> v]

Err(c, w) == [ok |-> FALSE, code |-> c, what |-> w, value |-> 0]

NoResult == [ok |-> FALSE, code |-> 0, what |-> "", value |-> 0]

\* boost::system::error_code delivered to a wait handler, by its message
Success == "Success"

OperationAborted == "Operation canceled"

Failed(ec) == ec # Success

TimedOut == Err(2, "Operation timed out")

TimerError(ec) == Err(1, "Timer error: " \o ec)

Exhausted == Err(3, "Polling attempts exhausted")

Values == {0, 1}

ErrCodes == {9, 42}

ErrWhat(c) == IF c = 42 THEN "transient" ELSE "first attempt fails"

AnyResults == {Ok(v) : v \in Values} \cup {Err(c, ErrWhat(c)) : c \in ErrCodes}

\* the wrapped IO: "any" completes once with any result; "flaky" and
\* "counter" are the stateful thunks of the tests; "never_held" keeps the
\* callback without ever calling it; "never_dropped" returns without
\* storing or calling it
Completing == {"any", "flaky", "counter"}

InnerOutcomes ==
  CASE inner = "flaky" ->
         {IF counter < 3 THEN Err(42, "transient") ELSE Ok(123)}
    [] inner = "counter" -> {Ok(counter - 1)}
    [] OTHER -> AnyResults

\* ------------------------------------------------------------ event log
Ev(e, k, d, r, ec) ==
  [e |-> e, k |-> k, d |-> d, r |-> r, ec |-> ec, at |-> now]

EvRun == Ev("run", 0, 0, NoResult, Success)

EvStart(k) == Ev("start", k, 0, NoResult, Success)

EvEnd(k, r) == Ev("end", k, 0, r, Success)

EvWait(d) == Ev("wait", attempt, d, NoResult, Success)

EvTimer(ec) == Ev("timer", attempt, 0, NoResult, ec)

EvCb(r) == Ev("cb", attempt, 0, r, Success)

\* --------------------------------------------------------- steady_timer
NoTimer == [st |-> "none", deadline |-> 0]

\* timer->expires_after(d); timer->async_wait(handler)
Armed(d) == [st |-> "armed", deadline |-> now + d]

\* timer.cancel(), or the destruction of the timer: a wait still pending
\* completes with operation_aborted, one already expired is not affected
Cancelled(t) == IF t.st = "armed" THEN [t EXCEPT !.st = "cancelled"] ELSE t

\* the error_code the pending wait handler is invoked with: success once
\* the deadline has passed, operation_aborted for a cancelled wait or for a
\* wait that the executor fails
HandlerEc ==
  IF timer.st = "expired" THEN {Success} ELSE {OperationAborted}

\* a wait handler can be invoked: the wait has expired or was cancelled, or
\* the executor fails it
HandlerDue ==
  \/ timer.st \in {"expired", "cancelled"}
  \/ timer.st = "armed" /\ faults

\* the deadline of the armed timer passes
TimerExpire ==
  /\ timer.st = "armed"
  /\ now >= timer.deadline
  /\ timer' = [timer EXCEPT !.st = "expired"]
  /\ UNCHANGED <<extVars, kind, inner, faults,
                 pc, duration, initial_delay, interval,
                 max_attempts, should_retry, satisfied, retry_on_error,
                 attempt, current_delay, fired, delivered, timer_fired,
                 result, io, counter, closure, cleanup_posted, now, log>>

\* the clock advances while a wait is pending, or while the IO wrapped by
\* timeout or delay is; an attempt of retry or poll calls back at once, as
\* the thunks of the tests do, or one millisecond after it started
Tick ==
  /\ pc = "running"
  /\ now < MaxTime
  /\ \/ timer.st = "armed" /\ now < timer.deadline
     \/ io = "pending" /\ kind \in {"timeout", "delay"}
     \/ io = "pending" /\ now = log[Len(log)].at
  /\ now' = now + 1
  /\ UNCHANGED <<extVars, kind, inner, faults,
                 pc, duration, initial_delay, interval,
                 max_attempts, should_retry, satisfied, retry_on_error,
                 attempt, current_delay, fired, delivered, timer_fired,
                 result, timer, io, counter, closure, cleanup_posted, log>>

\* self.run(cb) / self_ptr->clone().run(cb): the state of the wrapped IO
\* once its thunk has returned
Started ==
  CASE inner = "never_held" -> "held"
    [] inner = "never_dropped" -> "dropped"
    [] OTHER -> "pending"

\* ------------------------------------------------------------- timeout
TimeoutRun ==
  /\ pc = "constructed" /\ kind = "timeout"
  /\ pc' = "running"
  /\ fired' = FALSE
  /\ io' = Started
  /\ attempt' = 1
  \* the timer is owned by the callback given to self.run alone
  /\ timer' = IF Started = "dropped" THEN Cancelled(Armed(duration))
                                     ELSE Armed(duration)
  /\ log' = log \o <<EvRun, Ev("wait", 1, duration, NoResult, Success),
                     EvStart(1)>>
  /\ UNCHANGED <<extVars, kind, inner, faults,
                 duration, initial_delay, interval,
                 max_attempts, should_retry, satisfied, retry_on_error,
                 current_delay, delivered, timer_fired, result, counter,
                 closure, cleanup_posted, now>>

TimeoutOnTimer(ec) ==
  /\ pc = "running" /\ kind = "timeout"
  /\ HandlerDue /\ ec \in HandlerEc
  /\ timer' = [timer EXCEPT !.st = "done"]
  /\ IF fired
       THEN /\ log' = Append(log, EvTimer(ec))
            /\ UNCHANGED fired
       ELSE /\ fired' = TRUE
            /\ log' = IF ~Failed(ec)
                        THEN log \o <<EvTimer(ec), EvCb(TimedOut)>>
                        ELSE Append(log, EvTimer(ec))
  /\ UNCHANGED <<extVars, kind, inner, faults,
                 pc, duration, initial_delay, interval,
                 max_attempts, should_retry, satisfied, retry_on_error,
                 attempt, current_delay, delivered, timer_fired, result, io,
                 counter, closure, cleanup_posted, now>>

\* TimeoutOnResult without the test of *fired
TimeoutOnResultUnguarded(r) ==
  /\ pc = "running" /\ kind = "timeout"
  /\ io = "pending" /\ r \in InnerOutcomes
  /\ io' = "completed"
  /\ fired' = TRUE
  /\ timer' = Cancelled(timer)
  /\ log' = log \o <<EvEnd(1, r), EvCb(r)>>
  /\ UNCHANGED <<extVars, kind, inner, faults,
                 pc, duration, initial_delay, interval,
                 max_attempts, should_retry, satisfied, retry_on_error,
                 attempt, current_delay, delivered, timer_fired, result,
                 counter, closure, cleanup_posted, now>>

TimeoutOnResult(r) ==
  /\ pc = "running" /\ kind = "timeout"
  /\ io = "pending" /\ r \in InnerOutcomes
  /\ io' = "completed"
  /\ IF fired
       THEN /\ log' = Append(log, EvEnd(1, r))
            /\ timer' = Cancelled(timer)
            /\ UNCHANGED fired
       ELSE /\ fired' = TRUE
            /\ timer' = Cancelled(timer)
            /\ log' = log \o <<EvEnd(1, r), EvCb(r)>>
  /\ UNCHANGED <<extVars, kind, inner, faults,
                 pc, duration, initial_delay, interval,
                 max_attempts, should_retry, satisfied, retry_on_error,
                 attempt, current_delay, delivered, timer_fired, result,
                 counter, closure, cleanup_posted, now>>

\* --------------------------------------------------------------- delay
DelayRun ==
  /\ pc = "constructed" /\ kind = "delay"
  /\ pc' = "running"
  /\ result' = <<>>
  /\ delivered' = FALSE
  /\ timer_fired' = FALSE
  /\ timer' = Armed(duration)
  /\ io' = Started
  /\ attempt' = 1
  /\ log' = log \o <<EvRun, Ev("wait", 1, duration, NoResult, Success),
                     EvStart(1)>>
  /\ UNCHANGED <<extVars, kind, inner, faults,
                 duration, initial_delay, interval,
                 max_attempts, should_retry, satisfied, retry_on_error,
                 current_delay, fired, counter, closure, cleanup_posted, now>>

DelayOnTimer(ec) ==
  /\ pc = "running" /\ kind = "delay"
  /\ HandlerDue /\ ec \in HandlerEc
  /\ timer' = [timer EXCEPT !.st = "done"]
  /\ IF delivered
       THEN /\ log' = Append(log, EvTimer(ec))
            /\ UNCHANGED <<delivered, timer_fired>>
       ELSE IF Failed(ec)
         THEN /\ delivered' = TRUE
              /\ log' = log \o <<EvTimer(ec), EvCb(TimerError(ec))>>
              /\ UNCHANGED timer_fired
         ELSE /\ timer_fired' = TRUE
              /\ IF result # <<>>
                   THEN /\ delivered' = TRUE
                        /\ log' = log \o <<EvTimer(ec), EvCb(result[1])>>
                   ELSE /\ log' = Append(log, EvTimer(ec))
                        /\ UNCHANGED delivered
  /\ UNCHANGED <<extVars, kind, inner, faults,
                 pc, duration, initial_delay, interval,
                 max_attempts, should_retry, satisfied, retry_on_error,
                 attempt, current_delay, fired, result, io, counter, closure,
                 cleanup_posted, now>>

\* DelayOnResult delivering without the test of *timer_fired
DelayOnResultAtOnce(r) ==
  /\ pc = "running" /\ kind = "delay"
  /\ io = "pending" /\ r \in InnerOutcomes
  /\ io' = "completed"
  /\ IF delivered
       THEN /\ log' = Append(log, EvEnd(1, r))
            /\ UNCHANGED <<result, delivered>>
       ELSE /\ result' = <<r>>
            /\ delivered' = TRUE
            /\ log' = log \o <<EvEnd(1, r), EvCb(r)>>
  /\ UNCHANGED <<extVars, kind, inner, faults,
                 pc, duration, initial_delay, interval,
                 max_attempts, should_retry, satisfied, retry_on_error,
                 attempt, current_delay, fired, timer_fired, timer, counter,
                 closure, cleanup_posted, now>>

DelayOnResult(r) ==
  /\ pc = "running" /\ kind = "delay"
  /\ io = "pending" /\ r \in InnerOutcomes
  /\ io' = "completed"
  /\ IF delivered
       THEN /\ log' = Append(log, EvEnd(1, r))
            /\ UNCHANGED <<result, delivered>>
       ELSE /\ result' = <<r>>
            /\ IF timer_fired
                 THEN /\ delivered' = TRUE
                      /\ log' = log \o <<EvEnd(1, r), EvCb(r)>>
                 ELSE /\ log' = Append(log, EvEnd(1, r))
                      /\ UNCHANGED delivered
  /\ UNCHANGED <<extVars, kind, inner, faults,
                 pc, duration, initial_delay, interval,
                 max_attempts, should_retry, satisfied, retry_on_error,
                 attempt, current_delay, fired, timer_fired, timer, counter,
                 closure, cleanup_posted, now>>

\* ------------------------------------------------ retry_exponential_if
\* state->cleanup(): the stored function object is cleared
RetryCleanup == "released"

\* (*state->try_run)(d): count the attempt and run a clone of the wrapped IO
TryRun(d, pre) ==
  /\ attempt' = attempt + 1
  /\ current_delay' = d
  /\ io' = Started
  /\ counter' = IF inner \in {"flaky", "counter"} THEN counter + 1 ELSE counter
  /\ log' = pre \o <<EvStart(attempt + 1)>>

\* RetryFinal without the test of the attempt count
RetryFinalNoLimit(r) == r.ok \/ ~(r.code \in should_retry)

\* RetryFinal with the attempt count compared by > for >=
RetryFinalOffByOne(r) ==
  r.ok \/ attempt > max_attempts \/ ~(r.code \in should_retry)

\* whether the completion handler of an attempt delivers the final result
RetryFinal(r) ==
  r.ok \/ attempt >= max_attempts \/ ~(r.code \in should_retry)

\* NextDelay without the doubling
NextDelaySame(d) == d

\* the delay the next invocation of try_run is given
NextDelay(d) == d * 2

RetryRun ==
  /\ pc = "constructed" /\ kind = "retry"
  /\ pc' = "running"
  /\ closure' = "live"
  /\ TryRun(initial_delay, <<EvRun>>)
  /\ UNCHANGED <<extVars, kind, inner, faults,
                 duration, initial_delay, interval,
                 max_attempts, should_retry, satisfied, retry_on_error,
                 fired, delivered, timer_fired, result, timer,
                 cleanup_posted, now>>

RetryOnResult(r) ==
  /\ pc = "running" /\ kind = "retry"
  /\ io = "pending" /\ r \in InnerOutcomes
  /\ io' = "completed"
  /\ IF RetryFinal(r)
       THEN /\ closure' = RetryCleanup
            /\ log' = log \o <<EvEnd(attempt, r), EvCb(r)>>
            /\ UNCHANGED timer
       ELSE /\ timer' = Armed(current_delay)
            /\ log' = log \o <<EvEnd(attempt, r), EvWait(current_delay)>>
            /\ UNCHANGED closure
  /\ UNCHANGED <<extVars, kind, inner, faults,
                 pc, duration, initial_delay, interval,
                 max_attempts, should_retry, satisfied, retry_on_error,
                 attempt, current_delay, fired, delivered, timer_fired,
                 result, counter, cleanup_posted, now>>

\* RetryOnTimer without the test of ec
RetryOnTimerIgnoringEc(ec) ==
  /\ pc = "running" /\ kind = "retry"
  /\ HandlerDue /\ ec \in HandlerEc
  /\ timer' = [timer EXCEPT !.st = "done"]
  /\ IF closure = "live"
       THEN TryRun(NextDelay(current_delay), Append(log, EvTimer(ec)))
       ELSE /\ log' = Append(log, EvTimer(ec))
            /\ UNCHANGED <<attempt, current_delay, io, counter>>
  /\ UNCHANGED <<extVars, kind, inner, faults,
                 pc, duration, initial_delay, interval,
                 max_attempts, should_retry, satisfied, retry_on_error,
                 fired, delivered, timer_fired, result, closure,
                 cleanup_posted, now>>

RetryOnTimer(ec) ==
  /\ pc = "running" /\ kind = "retry"
  /\ HandlerDue /\ ec \in HandlerEc
  /\ timer' = [timer EXCEPT !.st = "done"]
  /\ IF Failed(ec)
       THEN /\ log' = log \o <<EvTimer(ec), EvCb(TimerError(ec))>>
            /\ UNCHANGED <<attempt, current_delay, io, counter>>
       ELSE IF closure = "live"
         THEN TryRun(NextDelay(current_delay), Append(log, EvTimer(ec)))
         ELSE /\ log' = Append(log, EvTimer(ec))
              /\ UNCHANGED <<attempt, current_delay, io, counter>>
  /\ UNCHANGED <<extVars, kind, inner, faults,
                 pc, duration, initial_delay, interval,
                 max_attempts, should_retry, satisfied, retry_on_error,
                 fired, delivered, timer_fired, result, closure,
                 cleanup_posted, now>>

\* ------------------------------------------------------------- poll_if
\* DoAttempt with the attempt count compared by > for >=
DoAttemptOffByOne(pre) ==
  IF attempt > max_attempts
    THEN /\ cleanup_posted' = TRUE
         /\ log' = pre \o <<EvCb(Exhausted)>>
         /\ UNCHANGED <<attempt, io, counter>>
    ELSE /\ attempt' = attempt + 1
         /\ io' = Started
         /\ counter' = IF inner \in {"flaky", "counter"} THEN counter + 1
                                                        ELSE counter
         /\ log' = pre \o <<EvStart(attempt + 1)>>
         /\ UNCHANGED cleanup_posted

\* (*state->do_attempt)()
DoAttempt(pre) ==
  IF attempt >= max_attempts
    THEN /\ cleanup_posted' = TRUE
         /\ log' = pre \o <<EvCb(Exhausted)>>
         /\ UNCHANGED <<attempt, io, counter>>
    ELSE /\ attempt' = attempt + 1
         /\ io' = Started
         /\ counter' = IF inner \in {"flaky", "counter"} THEN counter + 1
                                                        ELSE counter
         /\ log' = pre \o <<EvStart(attempt + 1)>>
         /\ UNCHANGED cleanup_posted

\* PollFinal without the call of satisfied
PollFinalAnyValue(r) ==
  IF r.ok THEN TRUE
          ELSE ~(r.code \in retry_on_error) \/ attempt >= max_attempts

\* PollFinal without the test of the attempt count
PollFinalNoLimit(r) ==
  IF r.ok THEN r.value \in satisfied
          ELSE ~(r.code \in retry_on_error)

\* whether handle_result delivers r as the final result
PollFinal(r) ==
  IF r.ok THEN r.value \in satisfied
          ELSE ~(r.code \in retry_on_error) \/ attempt >= max_attempts

PollRun ==
  /\ pc = "constructed" /\ kind = "poll"
  /\ pc' = "running"
  /\ closure' = "live"
  /\ DoAttempt(<<EvRun>>)
  /\ UNCHANGED <<extVars, kind, inner, faults,
                 duration, initial_delay, interval,
                 max_attempts, should_retry, satisfied, retry_on_error,
                 current_delay, fired, delivered, timer_fired, result, timer,
                 now>>

PollOnResult(r) ==
  /\ pc = "running" /\ kind = "poll"
  /\ io = "pending" /\ r \in InnerOutcomes
  /\ io' = "completed"
  /\ IF PollFinal(r)
       THEN /\ cleanup_posted' = TRUE
            /\ log' = log \o <<EvEnd(attempt, r), EvCb(r)>>
            /\ UNCHANGED timer
       ELSE /\ timer' = Armed(interval)
            /\ log' = log \o <<EvEnd(attempt, r), EvWait(interval)>>
            /\ UNCHANGED cleanup_posted
  /\ UNCHANGED <<extVars, kind, inner, faults,
                 pc, duration, initial_delay, interval,
                 max_attempts, should_retry, satisfied, retry_on_error,
                 attempt, current_delay, fired, delivered, timer_fired,
                 result, counter, closure, now>>

PollOnTimer(ec) ==
  /\ pc = "running" /\ kind = "poll"
  /\ HandlerDue /\ ec \in HandlerEc
  /\ timer' = [timer EXCEPT !.st = "done"]
  /\ IF Failed(ec)
       THEN /\ cleanup_posted' = TRUE
            /\ log' = log \o <<EvTimer(ec), EvCb(TimerError(ec))>>
            /\ UNCHANGED <<attempt, io, counter>>
       ELSE IF closure = "live"
         THEN DoAttempt(Append(log, EvTimer(ec)))
         ELSE /\ log' = Append(log, EvTimer(ec))
              /\ UNCHANGED <<attempt, io, counter, cleanup_posted>>
  /\ UNCHANGED <<extVars, kind, inner, faults,
                 pc, duration, initial_delay, interval,
                 max_attempts, should_retry, satisfied, retry_on_error,
                 current_delay, fired, delivered, timer_fired, result,
                 closure, now>>

\* the task cleanup() posted to the io_context
PollCleanup ==
  /\ kind = "poll" /\ cleanup_posted
  /\ cleanup_posted' = FALSE
  /\ closure' = "released"
  /\ UNCHANGED <<extVars, kind, inner, faults,
                 pc, duration, initial_delay, interval,
                 max_attempts, should_retry, satisfied, retry_on_error,
                 attempt, current_delay, fired, delivered, timer_fired,
                 result, timer, io, counter, now, log>>

\* ------------------------------------------------------ specifications
\* max_attempts of the tests' stateful thunks
TestAttempts == 5

Defaults ==
  /\ faults \in BOOLEAN
  /\ pc = "constructed"
  /\ attempt = 0
  /\ current_delay = 0
  /\ fired = FALSE
  /\ delivered = FALSE
  /\ timer_fired = FALSE
  /\ result = <<>>
  /\ timer = NoTimer
  /\ io = "idle"
  /\ counter = 0
  /\ closure = "none"
  /\ cleanup_posted = FALSE
  /\ now = 0
  /\ log = <<>>

InitTimer ==
  /\ kind \in {"timeout", "delay"}
  /\ inner \in {"any", "never_held", "never_dropped"}
  /\ duration \in 0..MaxDelay
  /\ initial_delay = 0 /\ interval = 0 /\ max_attempts = 0
  /\ should_retry = {} /\ satisfied = {} /\ retry_on_error = {}
  /\ Defaults

InitRetry ==
  /\ kind = "retry"
  /\ \/ /\ inner = "any"
        /\ max_attempts \in 0..MaxAttempts
        /\ initial_delay \in 1..MaxDelay
        /\ should_retry \in SUBSET ErrCodes
     \/ /\ inner = "flaky"
        /\ max_attempts = TestAttempts
        /\ initial_delay = 1
        /\ should_retry = ErrCodes
  /\ duration = 0 /\ interval = 0
  /\ satisfied = {} /\ retry_on_error = {}
  /\ Defaults

InitPoll ==
  /\ kind = "poll"
  /\ \/ /\ inner = "any"
        /\ max_attempts \in 0..MaxAttempts
        /\ interval \in 1..MaxDelay
        /\ satisfied \in SUBSET Values
        /\ retry_on_error \in SUBSET ErrCodes
     \/ /\ inner = "counter"
        /\ max_attempts = TestAttempts
        /\ interval = 1
        /\ satisfied = {v \in 0..TestAttempts : v >= 3}
        /\ retry_on_error = ErrCodes
  /\ duration = 0 /\ initial_delay = 0
  /\ should_retry = {}
  /\ Defaults

\* poll_with_state is not in use
PwsDefaults == hooks = FALSE /\ on_exhausted = "default"

\* no IO was built by pure, from_result or fail
RunDefaults == ctor = "none" /\ vtype = "int" /\ cell = NoResult /\ runs = <<>>

\* zip_io and collect_io are not in use
AggDefaults == items = 0 /\ idx = 0 /\ out = <<>>

\* no replace_entries or merge_entries was called
NoChange == [op |-> "none", given |-> <<>>]

\* the ProxyList the constructor makes is the only one, and no caller
\* holds a pointer into it
OneSnapshot ==
  /\ changed = NoChange
  /\ snapshot = 0 /\ heap = <<>> /\ handles = <<>>

\* no ProxyPool is in use
ProxyDefaults ==
  /\ proxies = <<>> /\ blacklist = {} /\ index = 0 /\ served = <<>>
  /\ OneSnapshot

\* a URL by its parts; a string is the sequence of its characters
Url(scheme, host, path, query) ==
  [scheme |-> scheme, host |-> host, path |-> path, query |-> query]

\* an http::request by the fields that are looked at
Request(method, target, host) ==
  [method |-> method, target |-> target, host |-> host, user_agent |-> ""]

\* an HttpExchange, or the arguments of http_request, as the caller set
\* them
Exchange(req, follow_redirect, no_modify_req, proxy) ==
  [request |-> req, follow_redirect |-> follow_redirect,
   no_modify_req |-> no_modify_req, proxy |-> proxy]

\* no call of http_request is under way
NoState == [redirects_left |-> 0]

\* no request is made
NoRequest ==
  /\ exchange = Exchange(Request("GET", <<>>, <<>>), FALSE, FALSE, <<>>)
  /\ ex_proxy = <<>> /\ pool_proxy = <<>>
  /\ server = <<>> /\ st = NoState /\ session = "none"
  /\ sent = <<>> /\ answers = <<>> /\ outcome = <<>>

\* the counts of a teardown of which nothing was done
NoTeardown == [resets |-> 0, stops |-> 0, joins |-> <<>>, returned |-> 0]

\* a manager that nobody stops
MgrDefaults ==
  /\ stopped = FALSE /\ work_guard = "held" /\ ioc_stopped = FALSE
  /\ thread_pool = <<>> /\ callers = <<>> /\ teardown = NoTeardown

\* ExponentialBackoffOptions
Options(initial_delay_, max_delay_, jitter_) ==
  [initial_delay |-> initial_delay_, max_delay |-> max_delay_,
   jitter |-> jitter_]

\* no backoff is in use
BackoffDefaults ==
  options_ = Options(1, 1, 0) /\ current_delay_ = 0 /\ next_delay = <<>>

\* a handler of timeout: where it is, what it read of *fired and what it
\* was called with
Handler(at, saw, arg) == [at |-> at, saw |-> saw, arg |-> arg]

\* no handler of timeout has been entered
NoHandlers ==
  handlers = [h \in {"timer", "result"} |-> Handler("idle", FALSE, Success)]

\* no thread calls a ProxyPool
LockDefaults == mutex = "free" /\ pool_calls = <<>> /\ serial = <<>>

\* no callback that throws, no step of collect_io
OwnDefaults == downstream = <<>> /\ step_owners = {}

SideDefaults ==
  BackoffDefaults /\ NoHandlers /\ LockDefaults /\ OwnDefaults

HttpDefaults ==
  /\ url = Url("http", <<>>, <<>>, <<>>) /\ no_proxy = <<>> /\ bypass = <<>>
  /\ NoRequest

\* the state the specifications of the IO combinators leave as it is
Unused == ProxyDefaults /\ HttpDefaults /\ MgrDefaults /\ SideDefaults

Init ==
  /\ InitTimer \/ InitRetry \/ InitPoll
  /\ PwsDefaults /\ RunDefaults /\ AggDefaults /\ Unused

Next ==
  \/ Tick
  \/ TimerExpire
  \/ TimeoutRun
  \/ \E ec \in {Success, OperationAborted} : TimeoutOnTimer(ec)
  \/ \E r \in InnerOutcomes : TimeoutOnResult(r)
  \/ DelayRun
  \/ \E ec \in {Success, OperationAborted} : DelayOnTimer(ec)
  \/ \E r \in InnerOutcomes : DelayOnResult(r)
  \/ RetryRun
  \/ \E r \in InnerOutcomes : RetryOnResult(r)
  \/ \E ec \in {Success, OperationAborted} : RetryOnTimer(ec)
  \/ PollRun
  \/ \E r \in InnerOutcomes : PollOnResult(r)
  \/ \E ec \in {Success, OperationAborted} : PollOnTimer(ec)
  \/ PollCleanup

Spec == Init /\ [][Next]_vars

\* ------------------------------------------------------------ observers
Cbs == SelectSeq(log, LAMBDA ev : ev.e = "cb")

Starts == SelectSeq(log, LAMBDA ev : ev.e = "start")

Ends == SelectSeq(log, LAMBDA ev : ev.e = "end")

Waits == SelectSeq(log, LAMBDA ev : ev.e = "wait")

Idx(e) == {i \in 1..Len(log) : log[i].e = e}

\* no handler is pending: the run has come to rest
Idle ==
  /\ pc = "running"
  /\ ~(timer.st \in {"armed", "expired", "cancelled"})
  /\ io # "pending"

TimerFailed == \E i \in Idx("timer") : Failed(log[i].ec)

RECURSIVE Pow2(_)
Pow2(n) == IF n <= 0 THEN 1 ELSE 2 * Pow2(n - 1)

\* ---------------------------------------------------------------- C1
\* C1: every run of an IO built from the combinators over wrapped IOs that
\* call back exactly once invokes the callback exactly once: never twice,
\* and once by the time nothing is pending any more, in every order of
\* timer expiries, timer errors and completions of the wrapped IO.
CallbackExactlyOnce ==
  (pc = "running" /\ inner \in Completing) =>
    /\ Len(Cbs) <= 1
    /\ Idle => Len(Cbs) = 1

\* ---------------------------------------------------------------- C2
TimeoutRace == SelectSeq(log, LAMBDA ev : ev.e \in {"timer", "end"})

\* C2: in x.timeout(d) the first event wins. When the wait handler runs
\* with success before x completes, the callback receives
\* Err(2, "Operation timed out") and nothing else, also after x completes.
\* When x completes first, the timer is cancelled, the callback receives
\* x's result, and the wait handler delivers nothing.
TimeoutFirstWins ==
  (kind = "timeout" /\ TimeoutRace # <<>>) =>
    LET first == TimeoutRace[1] IN
      /\ (first.e = "timer" /\ ~Failed(first.ec)) =>
           /\ Len(Cbs) = 1
           /\ Cbs[1].r = Err(2, "Operation timed out")
           /\ Cbs[1].at = first.at
      /\ first.e = "end" =>
           /\ Len(Cbs) = 1
           /\ Cbs[1].r = first.r
           /\ timer.st # "armed"

TimeoutLateResultDropped ==
  /\ kind = "timeout"
  /\ Len(TimeoutRace) = 2
  /\ TimeoutRace[1].e = "timer" /\ ~Failed(TimeoutRace[1].ec)
  /\ TimeoutRace[2].e = "end" /\ TimeoutRace[2].r.ok
  /\ Len(Cbs) = 1

\* ---------------------------------------------------------------- C3
\* C3: timeout(d) over an IO that never completes invokes the callback
\* with Err(2, "Operation timed out"), no earlier than d after run: once
\* the wait handler has run, that call has been made (stated for an
\* executor that fails no wait).
TimeoutOfNeverCompleting ==
  (kind = "timeout" /\ inner \in {"never_held", "never_dropped"}
     /\ ~faults /\ timer.st = "done") =>
    /\ Len(Cbs) = 1
    /\ Cbs[1].r = Err(2, "Operation timed out")
    /\ Cbs[1].at >= log[1].at + duration

\* ---------------------------------------------------------------- C4
\* C4: retry_exponential_if with max_attempts = n runs the wrapped IO at
\* least once and, for n >= 1, at most n times, whatever the outcomes and
\* whatever should_retry answers.
RetryAttemptBounds ==
  (kind = "retry" /\ pc = "running") =>
    /\ Len(Starts) >= 1
    /\ max_attempts >= 1 => Len(Starts) <= max_attempts
    /\ Len(Starts) = attempt

RetryRanAllAttempts ==
  /\ kind = "retry" /\ inner = "any"
  /\ max_attempts >= 2
  /\ Len(Starts) = max_attempts
  /\ Len(Cbs) = 1 /\ ~Cbs[1].r.ok /\ Cbs[1].r.code \in should_retry

\* ---------------------------------------------------------------- C5
\* the event after log[i] is the callback receiving r, and nothing follows
FinalAt(i, r) ==
  /\ Len(log) = i + 1
  /\ log[i + 1].e = "cb" /\ log[i + 1].r = r /\ log[i + 1].at = log[i].at

\* the event after log[i] arms a wait of d; once its handler has run with
\* success, attempt k + 1 has started, no earlier than d after log[i]
RetriedAt(i, k, d) ==
  /\ Len(log) >= i + 1
  /\ log[i + 1].e = "wait" /\ log[i + 1].d = d
  /\ (Len(log) >= i + 2 /\ ~Failed(log[i + 2].ec)) =>
       /\ log[i + 2].e = "timer"
       /\ Len(log) >= i + 3
       /\ log[i + 3].e = "start" /\ log[i + 3].k = k + 1
       /\ log[i + 3].at >= log[i].at + d

\* C5: when attempt k of retry_exponential_if ends with Err(e), a retry
\* follows if and only if k < max_attempts and should_retry(e); otherwise
\* the callback receives that error unchanged; an Ok result is delivered at
\* once with no further attempt. An IO failing twice and then succeeding,
\* with max 5, resolves Ok after exactly 3 attempts.
RetryDecision ==
  kind = "retry" =>
    /\ \A i \in Idx("end") :
         LET r == log[i].r
             k == log[i].k
         IN IF ~r.ok /\ k < max_attempts /\ r.code \in should_retry
              THEN RetriedAt(i, k, initial_delay * Pow2(k - 1))
              ELSE FinalAt(i, r)
    /\ (inner = "flaky" /\ Idle /\ ~TimerFailed) =>
         /\ Len(Cbs) = 1 /\ Cbs[1].r = Ok(123)
         /\ Len(Starts) = 3

RetryFlakySucceeds ==
  /\ kind = "retry" /\ inner = "flaky"
  /\ Len(Cbs) = 1 /\ Cbs[1].r = Ok(123)
  /\ Len(Ends) = 3 /\ ~Ends[1].r.ok /\ ~Ends[2].r.ok

\* ---------------------------------------------------------------- C6
\* C6: the wait before the k-th retry of retry_exponential_if is
\* initial_delay * 2^(k-1), and attempt k+1 does not start before that wait
\* has elapsed.
RetryBackoff ==
  kind = "retry" =>
    /\ \A j \in 1..Len(Waits) : Waits[j].d = initial_delay * Pow2(j - 1)
    /\ \A j \in 1..Len(Starts) :
         j >= 2 => /\ Len(Waits) >= j - 1
                   /\ Starts[j].at >= Waits[j - 1].at + Waits[j - 1].d

RetryThirdAttempt ==
  /\ kind = "retry" /\ inner = "any"
  /\ Len(Starts) = 3 /\ Len(Waits) = 2
  /\ Waits[2].d = 2 * initial_delay

\* ---------------------------------------------------------------- C7
\* C7: when the backoff wait of retry_exponential_if completes with an
\* error, the callback receives Err(1, "Timer error: ...") and no further
\* attempt is started.
RetryTimerError ==
  kind = "retry" =>
    \A i \in Idx("timer") :
      Failed(log[i].ec) =>
        /\ Len(log) = i + 1
        /\ log[i + 1].e = "cb"
        /\ log[i + 1].r = Err(1, "Timer error: " \o log[i].ec)
        /\ Len(Cbs) = 1

RetryWaitFailed ==
  /\ kind = "retry"
  /\ Len(Starts) = 2
  /\ log[Len(log)].e = "cb" /\ log[Len(log)].r.code = 1
  /\ log[Len(log) - 1].e = "timer" /\ Failed(log[Len(log) - 1].ec)

\* ---------------------------------------------------------------- C8
\* C8: poll_if with a predicate that is never satisfied, over an IO that
\* always succeeds, runs the IO exactly max_attempts times and then delivers
\* Err(3, "Polling attempts exhausted") (stated for waits that complete
\* without error).
PollExhaustion ==
  (/\ kind = "poll" /\ pc = "running"
   /\ \A i \in Idx("end") : log[i].r.ok /\ ~(log[i].r.value \in satisfied)
   /\ ~TimerFailed) =>
    /\ Len(Starts) <= max_attempts
    /\ Idle => /\ Len(Starts) = max_attempts
               /\ Len(Cbs) = 1
               /\ Cbs[1].r = Err(3, "Polling attempts exhausted")
               /\ log[Len(log)] = Cbs[1]

PollExhausted ==
  /\ kind = "poll" /\ satisfied = {}
  /\ max_attempts >= 2
  /\ Len(Ends) = max_attempts
  /\ \A j \in 1..Len(Ends) : Ends[j].r.ok
  /\ Len(Cbs) = 1 /\ Cbs[1].r.code = 3

\* ---------------------------------------------------------------- C9
\* the event after log[i] arms a wait of interval; once its handler has run
\* with success, the next attempt has started, no earlier than interval
\* after log[i], or with no attempt left the exhaustion was delivered
WaitedAt(i, k) ==
  /\ Len(log) >= i + 1
  /\ log[i + 1].e = "wait" /\ log[i + 1].d = interval
  /\ (Len(log) >= i + 2 /\ ~Failed(log[i + 2].ec)) =>
       /\ log[i + 2].e = "timer"
       /\ Len(log) >= i + 3
       /\ log[i + 3].at >= log[i].at + interval
       /\ IF k < max_attempts
            THEN log[i + 3].e = "start" /\ log[i + 3].k = k + 1
            ELSE log[i + 3].e = "cb" /\ log[i + 3].r = Exhausted

\* C9: poll_if delivers Ok(v) for the first attempt whose value satisfies
\* the predicate and runs no attempt after it; an unsatisfying successful
\* attempt is followed by a wait of interval before the next attempt. An IO
\* yielding 0, 1, 2, 3, ... with satisfied = v >= 3 and max 5 resolves after
\* exactly 4 attempts.
PollSatisfied ==
  kind = "poll" =>
    /\ \A i \in Idx("end") :
         log[i].r.ok =>
           IF log[i].r.value \in satisfied
             THEN FinalAt(i, log[i].r)
             ELSE WaitedAt(i, log[i].k)
    /\ \A j \in 1..Len(Cbs) :
         Cbs[j].r.ok =>
           /\ Cbs[j].r.value \in satisfied
           /\ Cbs[j].r = Ends[Len(Ends)].r
           /\ \A m \in 1..(Len(Ends) - 1) :
                ~(Ends[m].r.ok /\ Ends[m].r.value \in satisfied)
    /\ (inner = "counter" /\ Idle /\ ~TimerFailed) =>
         /\ Len(Cbs) = 1 /\ Cbs[1].r = Ok(3)
         /\ Len(Starts) = 4

PollCounterSatisfied ==
  /\ kind = "poll" /\ inner = "counter"
  /\ Len(Cbs) = 1 /\ Cbs[1].r = Ok(3)
  /\ Len(Starts) = 4 /\ Len(Waits) = 3

\* ---------------------------------------------------------------- C10
\* C10: when an attempt of poll_if ends with Err(e): if retry_on_error(e)
\* and fewer than max_attempts attempts have run, poll_if waits interval and
\* runs another attempt; otherwise the callback receives e itself.
PollErrorDecision ==
  kind = "poll" =>
    \A i \in Idx("end") :
      ~log[i].r.ok =>
        IF log[i].r.code \in retry_on_error /\ log[i].k < max_attempts
          THEN RetriedAt(i, log[i].k, interval)
          ELSE FinalAt(i, log[i].r)

PollErrorRetried ==
  /\ kind = "poll"
  /\ Len(Ends) >= 2 /\ ~Ends[1].r.ok /\ Ends[2].r.ok
  /\ Len(Waits) >= 1
  /\ Len(Cbs) = 1 /\ Cbs[1].r.ok

\* ===================================================== poll_with_state
\* src/include/io_monad_poll_with_state.hpp: job and decide are inputs, so
\* each call of them is a choice over what they can do

\* std::optional: <<>> is std::nullopt, <<x>> holds x
None == <<>>

Some(x) == <<x>>

\* optional.value_or(x)
ValueOr(opt, x) == IF opt = None THEN x ELSE opt[1]

\* PollControl::done(), retry(delay), fail(err), and the aggregate with
\* Kind::fail and no error
PollControl(k, delay, err) ==
  [kind |-> k, retry_after |-> delay, fail_error |-> err]

GaveUp == Err(7, "gave up")

Controls ==
  {PollControl("done", None, None)}
    \cup {PollControl("retry", d, None) : d \in {None, Some(MaxDelay)}}
    \cup {PollControl("fail", None, e) : e \in {None, Some(GaveUp)}}

\* the results of the IO that job returns (those of the tests)
JobResults == {Ok(0), Err(9, "transient")}

\* e.what() of the std::exception a call throws, None when it returns
JobThrows == {None, Some("job failed")}

DecideThrows == {None, Some("decide failed")}

\* Error{-1, e.what()}
Caught(what) == Err(-1, what)

FailWithoutError == Err(2, "poll_with_state: fail requested without error")

\* the error on_exhausted gives for the attempt count: the default of the
\* convenience overloads, the one of the test, or an exception caught
ExhaustedError(k) ==
  CASE on_exhausted = "default" -> Exhausted
    [] on_exhausted = "custom" ->
         Err(123, "exhausted: attempts=" \o ToString(k))
    [] OTHER -> Caught("on_exhausted failed")

\* a hook is called only when it is set
Hook(name, k, d, r) ==
  IF hooks THEN <<Ev(name, k, d, r, Success)>> ELSE <<>>

\* decide's answer, or the exception it threw
EvDecide(k, r, ctrl, thrown) ==
  [e |-> "decide", k |-> k, d |-> 0, r |-> r, ec |-> Success, at |-> now,
   ctrl |-> ctrl, thrown |-> thrown]

EvThrow(k, what) == Ev("throw", k, 0, NoResult, what)

\* (*do_attempt)(): thrown is what the call of job does
PwsDoAttempt(pre, thrown) ==
  IF attempt >= max_attempts
    THEN /\ closure' = "released"
         /\ log' = pre \o <<EvCb(Exhausted)>>
         /\ UNCHANGED <<attempt, io>>
    ELSE /\ attempt' = attempt + 1
         /\ IF thrown = None
              THEN /\ io' = "pending"
                   /\ log' = pre \o Hook("on_attempt_start", attempt + 1, 0,
                                         NoResult)
                                 \o <<EvStart(attempt + 1)>>
                   /\ closure' = "live"
              ELSE /\ io' = "idle"
                   /\ log' = pre \o Hook("on_attempt_start", attempt + 1, 0,
                                         NoResult)
                                 \o <<EvThrow(attempt + 1, thrown[1]),
                                      EvCb(Caught(thrown[1]))>>
                   /\ closure' = "released"

\* the body of the thunk poll_with_state_impl returns
PwsRun ==
  /\ pc = "constructed" /\ kind = "poll_with_state"
  /\ pc' = "running"
  /\ \E thrown \in JobThrows : PwsDoAttempt(<<EvRun>>, thrown)
  /\ UNCHANGED <<extVars, kind, inner, faults, duration, initial_delay,
                 interval, max_attempts, should_retry, satisfied,
                 retry_on_error, current_delay, fired, delivered,
                 timer_fired, result, timer, counter, cleanup_posted, now>>

\* the error Kind::fail delivers
FailError(ctrl, r) ==
  IF ctrl.fail_error # None THEN ctrl.fail_error[1]
  ELSE IF ~r.ok THEN r
  ELSE FailWithoutError

\* PwsOutcome going on as decide's answer says after decide threw
PwsOutcomeThrowIgnored(k, r, ctrl, thrown) ==
  IF ctrl.kind = "done" THEN Some(r)
  ELSE IF ctrl.kind = "fail" THEN Some(FailError(ctrl, r))
  ELSE IF k >= max_attempts THEN Some(ExhaustedError(k))
  ELSE None

\* what handle_result delivers for the result r of attempt k and decide's
\* behaviour: Some final result, or None when it schedules a retry
PwsOutcome(k, r, ctrl, thrown) ==
  IF thrown # None THEN Some(Caught(thrown[1]))
  ELSE IF ctrl.kind = "done" THEN Some(r)
  ELSE IF ctrl.kind = "fail" THEN Some(FailError(ctrl, r))
  ELSE IF k >= max_attempts THEN Some(ExhaustedError(k))
  ELSE None

\* the hook handle_result calls before it delivers
FinalHook(k, r, ctrl, thrown) ==
  IF thrown # None THEN <<>>
  ELSE IF ctrl.kind = "done" /\ r.ok THEN Hook("on_done", k, 0, NoResult)
  ELSE Hook("on_fail", k, 0, PwsOutcome(k, r, ctrl, thrown)[1])

\* RetryDelay without the value_or
RetryDelayDefault(ctrl) == interval

\* ctrl.retry_after.value_or(default_interval)
RetryDelay(ctrl) == ValueOr(ctrl.retry_after, interval)

\* PwsOnResult with schedule_retry in the else of the test of the hook
PwsOnResultHookOrRetry(r, ctrl, thrown) ==
  /\ pc = "running" /\ kind = "poll_with_state"
  /\ io = "pending"
  /\ io' = "completed"
  /\ IF PwsOutcome(attempt, r, ctrl, thrown) # None
       THEN /\ closure' = "released"
            /\ log' = log \o <<EvEnd(attempt, r),
                               EvDecide(attempt, r, ctrl, thrown)>>
                          \o FinalHook(attempt, r, ctrl, thrown)
                          \o <<EvCb(PwsOutcome(attempt, r, ctrl, thrown)[1])>>
            /\ UNCHANGED timer
       ELSE IF hooks
         THEN /\ log' = log \o <<EvEnd(attempt, r),
                                 EvDecide(attempt, r, ctrl, thrown)>>
                            \o Hook("on_retry_scheduled", attempt,
                                    RetryDelay(ctrl), NoResult)
              /\ UNCHANGED <<timer, closure>>
         ELSE /\ timer' = Armed(RetryDelay(ctrl))
              /\ log' = log \o <<EvEnd(attempt, r),
                                 EvDecide(attempt, r, ctrl, thrown),
                                 EvWait(RetryDelay(ctrl))>>
              /\ UNCHANGED closure
  /\ UNCHANGED <<extVars, kind, inner, faults, pc, duration, initial_delay,
                 interval, max_attempts, should_retry, satisfied,
                 retry_on_error, attempt, current_delay, fired, delivered,
                 timer_fired, result, counter, cleanup_posted, now>>

\* handle_result(attempt_no, r), called by the job's IO
PwsOnResult(r, ctrl, thrown) ==
  /\ pc = "running" /\ kind = "poll_with_state"
  /\ io = "pending"
  /\ io' = "completed"
  /\ IF PwsOutcome(attempt, r, ctrl, thrown) # None
       THEN /\ closure' = "released"
            /\ log' = log \o <<EvEnd(attempt, r),
                               EvDecide(attempt, r, ctrl, thrown)>>
                          \o FinalHook(attempt, r, ctrl, thrown)
                          \o <<EvCb(PwsOutcome(attempt, r, ctrl, thrown)[1])>>
            /\ UNCHANGED timer
       ELSE /\ timer' = Armed(RetryDelay(ctrl))
            /\ log' = log \o <<EvEnd(attempt, r),
                               EvDecide(attempt, r, ctrl, thrown)>>
                          \o Hook("on_retry_scheduled", attempt,
                                  RetryDelay(ctrl), NoResult)
                          \o <<EvWait(RetryDelay(ctrl))>>
            /\ UNCHANGED closure
  /\ UNCHANGED <<extVars, kind, inner, faults, pc, duration, initial_delay,
                 interval, max_attempts, should_retry, satisfied,
                 retry_on_error, attempt, current_delay, fired, delivered,
                 timer_fired, result, counter, cleanup_posted, now>>

\* the wait handler of schedule_retry
PwsOnTimer(ec) ==
  /\ pc = "running" /\ kind = "poll_with_state"
  /\ HandlerDue /\ ec \in HandlerEc
  /\ timer' = [timer EXCEPT !.st = "done"]
  /\ IF Failed(ec)
       THEN /\ closure' = "released"
            /\ log' = log \o <<EvTimer(ec), EvCb(TimerError(ec))>>
            /\ UNCHANGED <<attempt, io>>
       ELSE \E thrown \in JobThrows :
              PwsDoAttempt(Append(log, EvTimer(ec)), thrown)
  /\ UNCHANGED <<extVars, kind, inner, faults, pc, duration, initial_delay,
                 interval, max_attempts, should_retry, satisfied,
                 retry_on_error, current_delay, fired, delivered,
                 timer_fired, result, counter, cleanup_posted, now>>

InitPws ==
  /\ kind = "poll_with_state"
  /\ inner = "any"
  /\ max_attempts \in 0..MaxAttempts
  /\ interval \in 1..MaxDelay
  /\ hooks \in BOOLEAN
  /\ on_exhausted \in {"default", "custom", "throws"}
  /\ duration = 0 /\ initial_delay = 0
  /\ should_retry = {} /\ satisfied = {} /\ retry_on_error = {}
  /\ Defaults /\ RunDefaults /\ AggDefaults /\ Unused

NextPws ==
  \/ Tick
  \/ TimerExpire
  \/ PwsRun
  \/ \E r \in JobResults, ctrl \in Controls :
       PwsOnResult(r, ctrl, None)
  \/ \E r \in JobResults, thrown \in DecideThrows \ {None} :
       PwsOnResult(r, PollControl("retry", None, None), thrown)
  \/ \E ec \in {Success, OperationAborted} : PwsOnTimer(ec)

SpecPws == InitPws /\ [][NextPws]_vars

\* the events of poll_with_state other than the calls of hooks
HookNames == {"on_attempt_start", "on_retry_scheduled", "on_done", "on_fail"}

Core == SelectSeq(log, LAMBDA ev : ~(ev.e \in HookNames))

\* the positions in the events c where decide returned Retry
Retries(c) ==
  {i \in 1..Len(c) : /\ c[i].e = "decide"
                     /\ c[i].thrown = None
                     /\ c[i].ctrl.kind = "retry"}

\* an attempt begins with the call of job, which returns an IO or throws
Began(ev, k) == ev.e \in {"start", "throw"} /\ ev.k = k

\* ---------------------------------------------------------------- C11
\* C11: when decide returns Retry at attempt k of poll_with_state, then if
\* k < max_attempts a wait of the returned delay, or of default_interval
\* when none is returned, is started at once, and once its handler has run
\* with success attempt k + 1 begins, no earlier than that delay after the
\* decision; if k = max_attempts the callback receives at once the error
\* on_exhausted returns, Err(3, "Polling attempts exhausted") by default,
\* and no attempt begins afterwards.
PwsRetryDecision ==
  kind = "poll_with_state" =>
    LET c == Core
    IN \A i \in Retries(c) :
         LET k == c[i].k
             after == c[i].ctrl.retry_after
             d == IF after = None THEN interval ELSE after[1]
         IN IF k < max_attempts
              THEN /\ Len(c) > i
                   /\ c[i + 1].e = "wait" /\ c[i + 1].d = d
                   /\ Len(c) > i + 1 =>
                        /\ c[i + 2].e = "timer"
                        /\ ~Failed(c[i + 2].ec) =>
                             /\ Len(c) > i + 2
                             /\ Began(c[i + 3], k + 1)
                             /\ c[i + 3].at >= c[i].at + d
              ELSE /\ k = max_attempts
                   /\ Len(c) = i + 1
                   /\ c[i + 1].e = "cb"
                   /\ on_exhausted = "default" => c[i + 1].r = Exhausted
                   /\ on_exhausted = "custom" =>
                        c[i + 1].r =
                          Err(123, "exhausted: attempts=" \o ToString(k))

\* decide returned Retry with a delay of its own at attempt 1, attempt 2
\* began after the wait, decide returned Retry again and the callback got
\* the error of the custom on_exhausted
PwsRetriedThenExhausted ==
  /\ kind = "poll_with_state" /\ on_exhausted = "custom"
  /\ max_attempts = 2 /\ interval = 1
  /\ LET c == Core
     IN /\ Cardinality(Retries(c)) = 2
        /\ \E i \in Retries(c) :
             /\ c[i].k = 1
             /\ c[i].ctrl.retry_after = Some(MaxDelay)
             /\ c[i + 3].e = "start"
             /\ c[i + 3].at = c[i].at + MaxDelay
  /\ Len(Cbs) = 1 /\ Cbs[1].r = Err(123, "exhausted: attempts=2")

\* the positions in the events c where the call of job, or of decide, threw
Throws(c) ==
  {i \in 1..Len(c) :
     \/ c[i].e = "throw"
     \/ c[i].e = "decide" /\ c[i].thrown # None}

\* e.what() of the exception thrown at the event ev
ThrownAt(ev) == IF ev.e = "throw" THEN ev.ec ELSE ev.thrown[1]

\* ---------------------------------------------------------------- C12
\* C12: if job or decide throws a std::exception during an attempt of
\* poll_with_state, the callback receives Err(-1, e.what()) at once, that
\* is the only result it ever receives, and nothing happens afterwards: no
\* wait is started and no further attempt begins.
PwsThrowEndsPolling ==
  kind = "poll_with_state" =>
    LET c == Core
    IN \A i \in Throws(c) :
         /\ Len(c) = i + 1
         /\ c[i + 1].e = "cb"
         /\ c[i + 1].r = [ok |-> FALSE, code |-> -1,
                          what |-> ThrownAt(c[i]), value |-> 0]
         /\ Len(Cbs) = 1
         /\ timer.st \in {"none", "done"} /\ io # "pending"

\* decide threw at the second attempt, after a retry, and the callback got
\* Err(-1, "decide failed")
PwsDecideThrewAtSecond ==
  /\ kind = "poll_with_state"
  /\ LET c == Core
     IN \E i \in Throws(c) : c[i].e = "decide" /\ c[i].k = 2
  /\ Len(Cbs) = 1 /\ Cbs[1].r = Err(-1, "decide failed")
  /\ Len(Starts) = 2

\* what the callback is due after the event prev of Core, from the job
\* results and the answers of decide alone
PwsDue(prev) ==
  CASE prev.e = "throw" -> Err(-1, prev.ec)
    [] prev.e = "timer" -> Err(1, "Timer error: " \o prev.ec)
    [] prev.e = "decide" /\ prev.thrown # None -> Err(-1, prev.thrown[1])
    [] prev.e = "decide" /\ prev.thrown = None /\ prev.ctrl.kind = "done" ->
         prev.r
    [] prev.e = "decide" /\ prev.thrown = None /\ prev.ctrl.kind = "fail" ->
         IF prev.ctrl.fail_error # None THEN prev.ctrl.fail_error[1]
         ELSE IF ~prev.r.ok THEN prev.r
         ELSE Err(2, "poll_with_state: fail requested without error")
    [] prev.e = "decide" /\ prev.thrown = None /\ prev.ctrl.kind = "retry" ->
         CASE on_exhausted = "default" -> Err(3, "Polling attempts exhausted")
           [] on_exhausted = "custom" ->
                Err(123, "exhausted: attempts=" \o ToString(prev.k))
           [] OTHER -> Err(-1, "on_exhausted failed")
    [] OTHER -> Err(3, "Polling attempts exhausted")

\* whether polling ends with the event ev of Core
PwsLast(ev) ==
  \/ ev.e = "throw"
  \/ ev.e = "timer" /\ Failed(ev.ec)
  \/ ev.e = "run" /\ max_attempts <= 0
  \/ ev.e = "decide" /\ \/ ev.thrown # None
                        \/ ev.ctrl.kind # "retry"
                        \/ ev.k >= max_attempts

MaxRuns == 3

\* the values of T: int, which a move copies, and std::string
IntValues == {0, 1}

StringValues == {"hello"}

Built ==
  [pure |-> [int |-> {Ok(v) : v \in IntValues},
             string |-> {Ok(v) : v \in StringValues}],
   from_result |-> [int |-> {Ok(v) : v \in IntValues} \cup
                              {Err(c, ErrWhat(c)) : c \in ErrCodes},
                    string |-> {Ok(v) : v \in StringValues} \cup
                                 {Err(c, ErrWhat(c)) : c \in ErrCodes}],
   fail |-> [int |-> {Err(c, ErrWhat(c)) : c \in ErrCodes},
             string |-> {Err(c, ErrWhat(c)) : c \in ErrCodes}]]

\* what std::move(x) followed by a move construction leaves in x: an int is
\* copied; a std::string (the value, or Error::what) is left valid but
\* unspecified, empty in the standard libraries and at most unchanged
MovedFrom(r) ==
  IF r.ok
    THEN IF vtype = "string" THEN {[r EXCEPT !.value = ""], r} ELSE {r}
    ELSE {[r EXCEPT !.what = ""], r}

\* the thunk, called by run: cb(Ok(std::move(*val))), cb(std::move(*res)),
\* cb(Err(std::move(error))). clone() copies the thunk: a copy shares the
\* shared_ptr of pure and from_result, and has an Error of its own for fail
RunThunk(via) ==
  /\ ctor # "none"
  /\ Len(runs) < MaxRuns
  /\ runs' = Append(runs, [via |-> via, r |-> cell])
  /\ IF ctor = "fail" /\ via = "clone"
       THEN UNCHANGED cell
       ELSE cell' \in MovedFrom(cell)
  /\ UNCHANGED <<ioVars, pwsVars, aggVars, proxyVars, clientVars, sideVars,
                 ctor,
                 vtype>>

\* io.run(cb)
IoRun == RunThunk("direct")

\* io.clone().run(cb), the way retry_exponential_if and poll_if run it
IoCloneRun == RunThunk("clone")

InitRun ==
  /\ ctor \in {"pure", "from_result", "fail"}
  /\ vtype \in {"int", "string"}
  /\ cell \in Built[ctor][vtype]
  /\ runs = <<>>
  /\ kind = "none" /\ inner = "any"
  /\ duration = 0 /\ initial_delay = 0 /\ interval = 0 /\ max_attempts = 0
  /\ should_retry = {} /\ satisfied = {} /\ retry_on_error = {}
  /\ Defaults /\ faults = FALSE
  /\ PwsDefaults /\ AggDefaults /\ Unused

NextRun == IoRun \/ IoCloneRun

SpecRun == InitRun /\ [][NextRun]_vars

\* ---------------------------------------------------------------- C14
\* C14: every run of an IO built by pure, from_result or fail, on the IO
\* itself or on a clone of it, delivers the result the first run delivered.
RunsDeliverTheSame == \A i \in 1..Len(runs) : runs[i].r = runs[1].r

\* ==================================== map, then, catch_then, zip_io,
\* collect_io (src/include/io_monad.hpp 74-140, 1129-1143, 1192-1220), run
\* over IOs that each call back once; idx counts the IOs that completed
\* with Ok, and the IO running is number idx + 1

MaxItems == 4

\* what the timing combinators hold that these do not touch
timingVars == <<inner, faults, duration, initial_delay, interval,
                max_attempts, should_retry, satisfied, retry_on_error,
                attempt, current_delay, fired, delivered, timer_fired,
                result, timer, counter, closure, cleanup_posted, now>>

\* e.what() of the std::exception the function given to map, then or
\* catch_then throws, None when it returns
FnThrows == {None, Some("boom")}

\* ThrowCode with the same code for every combinator
ThrowCodeSame(k) == -1

\* the code of the Error a combinator makes of an exception of its function
ThrowCode(k) ==
  CASE k = "map" -> -1
    [] k = "then" -> -2
    [] OTHER -> -3

\* whether the combinator calls its function on the result r
InvokesFn(k, r) == IF k = "catch_then" THEN ~r.ok ELSE r.ok

\* std::make_tuple(v1), and std::tuple_cat(std::make_tuple(v1), tail) on
\* the way back through the maps of zip_io
RECURSIVE ZipTuple(_)
ZipTuple(vs) ==
  IF Len(vs) = 0 THEN <<>>
  ELSE IF Len(vs) = 1 THEN <<vs[1]>>
  ELSE <<Head(vs)>> \o ZipTuple(Tail(vs))

\* Step that completes when one item is left
StepOffByOne(pre, k, vs) ==
  IF k + 1 >= items
    THEN /\ log' = pre \o <<EvCb(Ok(vs))>>
         /\ io' = "idle"
    ELSE /\ log' = pre \o <<EvStart(k + 1)>>
         /\ io' = "pending"

\* (*step)() of collect_io with *idx = k and *out = vs
Step(pre, k, vs) ==
  IF k >= items
    THEN /\ log' = pre \o <<EvCb(Ok(vs))>>
         /\ io' = "idle"
    ELSE /\ log' = pre \o <<EvStart(k + 1)>>
         /\ io' = "pending"

\* what holds a shared_ptr to the function *step once the handler that
\* called it has returned: the closure stored in *step, which captured
\* step by copy, and the callback given to the item that is running; the
\* local step of the thunk is gone when the thunk returns
StepOwners(running) ==
  IF running THEN {"self", "callback"} ELSE {"self"}

\* the thunk of collect_io, and that of all_ok_io, which has no *out
CollectRun ==
  /\ pc = "constructed" /\ kind \in {"collect", "all_ok"}
  /\ pc' = "running"
  /\ Step(<<EvRun>>, idx, out)
  /\ step_owners' = StepOwners(idx < items)
  /\ UNCHANGED <<timingVars, kind, pwsVars, runVars, aggVars, proxyVars,
                 clientVars, sideNoStep>>

\* the callback collect_io, or all_ok_io, gives to the clone of item
\* idx + 1
CollectOnResult(r) ==
  /\ pc = "running" /\ kind \in {"collect", "all_ok"}
  /\ io = "pending"
  /\ IF ~r.ok
       THEN /\ log' = log \o <<EvEnd(idx + 1, r), EvCb(Err(r.code, r.what))>>
            /\ io' = "idle"
            /\ UNCHANGED <<idx, out>>
       ELSE /\ out' = IF kind = "all_ok" THEN out ELSE Append(out, r.value)
            /\ idx' = idx + 1
            /\ Step(Append(log, EvEnd(idx + 1, r)), idx + 1, out')
  /\ step_owners' = StepOwners(r.ok /\ idx + 1 < items)
  /\ UNCHANGED <<timingVars, kind, pc, pwsVars, runVars, proxyVars,
                 clientVars, sideNoStep, items>>

\* the thunk of zip_io(io1, ..., ion): that of pure({}) for no IO, else
\* that of first.then(...) or first.map(...), which runs first
ZipRun ==
  /\ pc = "constructed" /\ kind = "zip"
  /\ pc' = "running"
  /\ IF items = 0
       THEN /\ log' = <<EvRun, EvCb(Ok(<<>>))>>
            /\ UNCHANGED io
       ELSE /\ log' = <<EvRun, EvStart(1)>>
            /\ io' = "pending"
  /\ UNCHANGED <<timingVars, kind, pwsVars, runVars, aggVars, proxyVars,
                 clientVars, sideVars>>

\* ZipOnResult going on to the next IO after an error
ZipOnResultGoesOn(r) ==
  /\ pc = "running" /\ kind = "zip"
  /\ io = "pending"
  /\ idx' = idx + 1
  /\ out' = Append(out, r.value)
  /\ IF idx + 1 = items
       THEN /\ io' = "idle"
            /\ log' = log \o <<EvEnd(idx + 1, r),
                               EvCb(IF r.ok THEN Ok(ZipTuple(out'))
                                            ELSE Err(r.code, r.what))>>
       ELSE /\ io' = "pending"
            /\ log' = log \o <<EvEnd(idx + 1, r), EvStart(idx + 2)>>
  /\ UNCHANGED <<timingVars, kind, pc, pwsVars, runVars, proxyVars,
                 clientVars, sideVars, items>>

\* the callback then (io1 .. ion-1) or map (ion) gives to the IO it runs:
\* on Err the error goes to cb through the maps around; on Ok then calls
\* its function, which runs zip_io(rest...), and map makes the tuple
ZipOnResult(r) ==
  /\ pc = "running" /\ kind = "zip"
  /\ io = "pending"
  /\ IF ~r.ok
       THEN /\ log' = log \o <<EvEnd(idx + 1, r), EvCb(Err(r.code, r.what))>>
            /\ io' = "idle"
            /\ UNCHANGED <<idx, out>>
       ELSE /\ out' = Append(out, r.value)
            /\ idx' = idx + 1
            /\ IF idx + 1 = items
                 THEN /\ io' = "idle"
                      /\ log' = log \o <<EvEnd(idx + 1, r),
                                         EvCb(Ok(ZipTuple(out')))>>
                 ELSE /\ io' = "pending"
                      /\ log' = log \o <<EvEnd(idx + 1, r), EvStart(idx + 2)>>
  /\ UNCHANGED <<timingVars, kind, pc, pwsVars, runVars, proxyVars,
                 clientVars, sideVars, items>>

\* the thunk of prev.map(fn), prev.then(fn) or prev.catch_then(fn)
FnRun ==
  /\ pc = "constructed" /\ kind \in {"map", "then", "catch_then"}
  /\ pc' = "running"
  /\ io' = "pending"
  /\ log' = <<EvRun, EvStart(1)>>
  /\ UNCHANGED <<timingVars, kind, pwsVars, runVars, aggVars, proxyVars,
                 clientVars, sideVars>>

\* the callback given to prev: fn returns ret (map) or an IO (then,
\* catch_then), or throws
FnOnPrev(r, ret, thrown) ==
  /\ pc = "running" /\ kind \in {"map", "then", "catch_then"}
  /\ io = "pending" /\ idx = 0
  /\ idx' = 1
  /\ IF ~InvokesFn(kind, r)
       THEN /\ log' = log \o <<EvEnd(1, r), EvCb(r)>>
            /\ io' = "idle"
       ELSE IF thrown # None
         THEN /\ log' = log \o <<EvEnd(1, r), EvThrow(1, thrown[1]),
                                 EvCb(Err(ThrowCode(kind), thrown[1]))>>
              /\ io' = "idle"
         ELSE IF kind = "map"
           THEN /\ log' = log \o <<EvEnd(1, r), EvCb(Ok(ret))>>
                /\ io' = "idle"
           ELSE /\ log' = log \o <<EvEnd(1, r), EvStart(2)>>
                /\ io' = "pending"
  /\ UNCHANGED <<timingVars, kind, pc, pwsVars, runVars, proxyVars,
                 clientVars, sideVars, items,
                 out>>

\* cb, given to the IO that the function of then or catch_then returned
FnOnNext(r) ==
  /\ pc = "running" /\ kind \in {"then", "catch_then"}
  /\ io = "pending" /\ idx = 1
  /\ idx' = 2
  /\ io' = "idle"
  /\ log' = log \o <<EvEnd(2, r), EvCb(r)>>
  /\ UNCHANGED <<timingVars, kind, pc, pwsVars, runVars, proxyVars,
                 clientVars, sideVars, items,
                 out>>

InitComb ==
  /\ \/ kind \in {"zip", "collect", "all_ok"} /\ items \in 0..MaxItems
     \/ kind \in {"map", "then", "catch_then"} /\ items = 1
  /\ idx = 0 /\ out = <<>>
  /\ inner = "any"
  /\ duration = 0 /\ initial_delay = 0 /\ interval = 0 /\ max_attempts = 0
  /\ should_retry = {} /\ satisfied = {} /\ retry_on_error = {}
  /\ Defaults /\ faults = FALSE
  /\ PwsDefaults /\ RunDefaults /\ Unused

NextComb ==
  \/ CollectRun
  \/ \E r \in AnyResults : CollectOnResult(r)
  \/ ZipRun
  \/ \E r \in AnyResults : ZipOnResult(r)
  \/ FnRun
  \/ \E r \in AnyResults, ret \in Values, thrown \in FnThrows :
       FnOnPrev(r, ret, thrown)
  \/ \E r \in AnyResults : FnOnNext(r)

SpecComb == InitComb /\ [][NextComb]_vars

\* item k is started only right after item k - 1 completed with Ok, and
\* item 1 right after run
OneAtATime ==
  \A i \in Idx("start") :
    /\ i > 1
    /\ IF log[i].k = 1
         THEN log[i - 1].e = "run"
         ELSE /\ log[i - 1].e = "end"
              /\ log[i - 1].k = log[i].k - 1
              /\ log[i - 1].r.ok

\* an item that completed with Err ends the run: the callback receives
\* that error at once and nothing is started afterwards
FirstErrorEnds ==
  \A i \in Idx("end") :
    ~log[i].r.ok =>
      /\ Len(log) = i + 1
      /\ log[i + 1].e = "cb"
      /\ ~log[i + 1].r.ok
      /\ log[i + 1].r.code = log[i].r.code
      /\ log[i + 1].r.what = log[i].r.what

\* once every item has completed with Ok the callback has received Ok
\* with the items' values in input order, and it receives Ok only then
AllOkInOrder ==
  /\ (/\ pc = "running" /\ Len(Ends) = items
      /\ \A j \in 1..items : Ends[j].r.ok) =>
       /\ Len(Cbs) = 1 /\ Cbs[1].r.ok
       /\ Len(Cbs[1].r.value) = items
       /\ \A j \in 1..items :
            Ends[j].k = j /\ Cbs[1].r.value[j] = Ends[j].r.value
  /\ \A c \in 1..Len(Cbs) : Cbs[c].r.ok => c = 1 /\ Len(Ends) = items

\* ---------------------------------------------------------------- C15
\* C15: zip_io(io1, ..., ion) starts io(k+1) only after io(k) has
\* completed with Ok; if the k-th IO errors, the later IOs are never
\* started and the callback receives that error; when all complete with Ok
\* the callback receives the tuple of their values in input order.
ZipSequential ==
  kind = "zip" => OneAtATime /\ FirstErrorEnds /\ AllOkInOrder

\* of three IOs the first completed with Ok and the second with Err: the
\* callback has the error and the third was never started
ZipSecondFailed ==
  /\ kind = "zip" /\ items = 3
  /\ Len(Starts) = 2 /\ Len(Ends) = 2
  /\ Ends[1].r.ok /\ ~Ends[2].r.ok
  /\ Len(Cbs) = 1 /\ Cbs[1].r = Err(42, "transient")

\* ---------------------------------------------------------------- C16
\* C16: collect_io runs its items one at a time in input order: each is
\* started only after the one before completed with Ok; when all succeed
\* the callback receives Ok with the values in input order, and on the
\* first Err it receives that error and no later item is started.
CollectSequential ==
  kind = "collect" => OneAtATime /\ FirstErrorEnds /\ AllOkInOrder

\* three items completed with Ok, with different values, and the callback
\* received them in input order
CollectedThree ==
  /\ kind = "collect" /\ items = 3
  /\ Len(Cbs) = 1 /\ Cbs[1].r = Ok(<<1, 0, 1>>)
  /\ Len(Starts) = 3

\* ---------------------------------------------------------------- C17
\* C17: if the function given to map, then or catch_then throws a
\* std::exception when it is invoked, the callback receives exactly one
\* result, at once: Err with code -1 for map, -2 for then and -3 for
\* catch_then, and e.what() as its message.
FnThrowBecomesError ==
  kind \in {"map", "then", "catch_then"} =>
    \A i \in Idx("throw") :
      /\ Len(log) = i + 1
      /\ log[i + 1].e = "cb"
      /\ log[i + 1].r =
           [ok |-> FALSE,
            code |-> IF kind = "map" THEN -1
                     ELSE IF kind = "then" THEN -2 ELSE -3,
            what |-> log[i].ec, value |-> 0]
      /\ Len(Cbs) = 1

\* the function of catch_then was invoked with the error of the IO before
\* it and threw: the callback got Err(-3, "boom")
CatchThenFnThrew ==
  /\ kind = "catch_then"
  /\ Len(Ends) = 1 /\ Ends[1].r = Err(9, "first attempt fails")
  /\ Idx("throw") # {}
  /\ Len(Cbs) = 1 /\ Cbs[1].r = Err(-3, "boom")

\* ---------------------------------------------------------------- C18
\* C18: x.delay(d), when its wait completes with success, delivers the
\* outcome of x, Ok or Err alike, and nothing else, no earlier than d after
\* run; it has delivered it once x has completed and the wait handler has
\* run, in whichever order the two happen.
DelayedOutcome ==
  (kind = "delay" /\ ~TimerFailed) =>
    /\ \A c \in 1..Len(Cbs) :
         /\ Len(Ends) = 1 /\ Cbs[c].r = Ends[1].r
         /\ Cbs[c].at >= log[1].at + duration
    /\ (Len(Ends) = 1 /\ Idx("timer") # {}) => Len(Cbs) = 1

\* x completed with an error before the timer expired, and the callback
\* received that error when the timer expired, d after run
DelayedError ==
  /\ kind = "delay" /\ duration = MaxDelay
  /\ Len(Ends) = 1 /\ ~Ends[1].r.ok /\ Ends[1].at < MaxDelay
  /\ Len(Cbs) = 1 /\ Cbs[1].r = Ends[1].r /\ Cbs[1].at = MaxDelay

\* ============================================================ ProxyPool
\* src/include/proxy_pool.hpp: every operation runs under mutex_ and reads
\* the steady clock, now, in seconds

MaxEntries == 3
MaxTimeout == 1
MaxClock == 2
MaxCalls == 4
MaxAdded == 2
MaxHandles == 2

\* ProxySetting values, compared by operator==
Proxies == {"a", "b"}

\* the lists a configuration can give
ProxyLists == UNION {[1..n -> Proxies] : n \in 0..MaxEntries}

\* the lists given to replace_entries and merge_entries
Additions == UNION {[1..n -> Proxies] : n \in 0..MaxAdded}

\* what the timing combinators hold, but for the clock
ioNoClock == <<kind, inner, faults, pc, duration, initial_delay, interval,
               max_attempts, should_retry, satisfied, retry_on_error,
               attempt, current_delay, fired, delivered, timer_fired,
               result, timer, io, counter, closure, cleanup_posted, log>>

\* blacklist_.find(proxy): the expiry stored for it, None when it has none
Expiry(bl, proxy) ==
  IF \E x \in bl : x[1] = proxy
    THEN Some((CHOOSE x \in bl : x[1] = proxy)[2])
    ELSE None

\* IsBlacklisted with the comparison turned round
IsBlacklistedFlipped(bl, proxy) ==
  Expiry(bl, proxy) # None /\ Expiry(bl, proxy)[1] < now

\* is_blacklisted(proxy)
IsBlacklisted(bl, proxy) ==
  Expiry(bl, proxy) # None /\ now < Expiry(bl, proxy)[1]

\* clean_expired()
CleanExpired(bl) == {x \in bl : ~(now >= x[2])}

\* Scan that does not move index_ past the entry it returns
RECURSIVE ScanStays(_, _, _, _)
ScanStays(list, bl, i, tries) ==
  IF tries >= Len(list)
    THEN [ret |-> 0, index |-> i, skipped |-> tries]
    ELSE IF ~IsBlacklisted(bl, list[i + 1])
      THEN [ret |-> i + 1, index |-> i, skipped |-> tries]
      ELSE ScanStays(list, bl, (i + 1) % Len(list), tries + 1)

\* the loop of next(): ret is the place in the list, from 1, of the entry
\* returned, 0 for a null handle; index is index_ after the loop and
\* skipped the entries passed over
RECURSIVE Scan(_, _, _, _)
Scan(list, bl, i, tries) ==
  IF tries >= Len(list)
    THEN [ret |-> 0, index |-> i, skipped |-> tries]
    ELSE IF ~IsBlacklisted(bl, list[i + 1])
      THEN [ret |-> i + 1, index |-> (i + 1) % Len(list),
            skipped |-> tries]
      ELSE Scan(list, bl, (i + 1) % Len(list), tries + 1)

\* what a call of next() did: the entry returned, the entries it skipped
\* with the expiry each had, the entries that were not blacklisted
Served(list, bl, from, sc) ==
  [ret |-> sc.ret,
   skipped |-> [n \in 1..sc.skipped |->
                  LET q == ((from + n - 1) % Len(list)) + 1
                  IN [at |-> q, expiry |-> Expiry(bl, list[q])]],
   expiry |-> IF sc.ret = 0 THEN None ELSE Expiry(bl, list[sc.ret]),
   eligible |-> {q \in 1..Len(list) : ~IsBlacklisted(bl, list[q])},
   at |-> now]

\* what the other specifications hold
notProxy == <<pwsVars, runVars, aggVars, clientVars, sideVars>>

\* a pointer to the entry at place `at` of the ProxyList proxies_ points
\* to, with the entry it pointed to when it was made: a shared_ptr that
\* shares the ownership of the list (owns), or a raw pointer
Handle(at, owns) ==
  [block |-> snapshot, at |-> at, owns |-> owns, was |-> proxies[at]]

\* the shared_ptrs among hs that share the ownership of block b
Owners(hs, b) == {i \in 1..Len(hs) : hs[i].block = b /\ hs[i].owns}

\* std::make_shared<ProxyList>: the first block that holds no live list
\* and that no pointer names
NewBlock(hp, hs) ==
  CHOOSE n \in 0..(Len(hs) + 1) :
    LET used(m) == m \in DOMAIN hp \/ \E i \in 1..Len(hs) : hs[i].block = m
    IN ~used(n) /\ \A m \in 0..(n - 1) : used(m)

\* proxies_ = std::make_shared<ProxyList>(list): proxies_ lets go of the
\* list it pointed to, which is destroyed unless a shared_ptr owns it too
SwapSnapshot(list) ==
  LET kept == IF Owners(handles, snapshot) = {}
                THEN heap
                ELSE [x \in DOMAIN heap \cup {snapshot} |->
                        IF x = snapshot THEN proxies ELSE heap[x]]
  IN /\ snapshot' = NewBlock(kept, handles)
     /\ heap' = kept
     /\ proxies' = list

\* a call of next(); held is None when the caller lets go of the handle at
\* once, Some(TRUE) when it keeps the shared_ptr and Some(FALSE) when it
\* keeps the raw pointer only
NextCall(held) ==
  /\ kind = "proxy_pool"
  /\ Len(served) < MaxCalls
  /\ held # None => Len(handles) < MaxHandles
  /\ changed' = NoChange
  /\ IF Len(proxies) = 0
       THEN /\ served' = Append(served,
                                [ret |-> 0, skipped |-> <<>>, expiry |-> None,
                                 eligible |-> {}, at |-> now])
            /\ UNCHANGED <<blacklist, index, handles>>
       ELSE LET sc == Scan(proxies, CleanExpired(blacklist), index, 0)
            IN /\ blacklist' = CleanExpired(blacklist)
               /\ index' = sc.index
               /\ served' = Append(served,
                                   Served(proxies, blacklist, index, sc))
               /\ handles' =
                    IF held # None /\ sc.ret # 0
                      THEN Append(handles, Handle(sc.ret, held[1]))
                      ELSE handles
  /\ UNCHANGED <<ioNoClock, now, notProxy, proxies, snapshot, heap>>

\* next(), the handle used and let go of before any other call
ProxyNext == NextCall(None)

\* next(), the caller keeping the handle
ProxyNextHeld == NextCall(Some(TRUE))

\* HttpClientManager::borrow_proxy(): the pointer it returns is the
\* const ProxySetting* of the handle next() gave, which ends with the call
BorrowProxy == NextCall(Some(FALSE))

\* the caller lets go of the i-th pointer it holds
ReleaseHandle(i) ==
  /\ kind = "proxy_pool"
  /\ i \in 1..Len(handles)
  /\ handles' = [n \in 1..(Len(handles) - 1) |->
                   IF n < i THEN handles[n] ELSE handles[n + 1]]
  /\ heap' = IF handles[i].owns /\ Owners(handles', handles[i].block) = {}
               THEN [x \in DOMAIN heap \ {handles[i].block} |-> heap[x]]
               ELSE heap
  /\ UNCHANGED <<ioNoClock, now, notProxy, proxies, blacklist, index, served,
                 changed, snapshot>>

\* blacklist(proxy, timeout)
ProxyBlacklist(proxy, timeout) ==
  /\ kind = "proxy_pool"
  /\ blacklist' = {x \in blacklist : x[1] # proxy}
                    \cup {<<proxy, now + timeout>>}
  /\ served' = <<>>
  /\ changed' = NoChange
  /\ UNCHANGED <<ioNoClock, now, notProxy, proxies, index, snapshot, heap,
                 handles>>

\* reset_blacklist()
ProxyResetBlacklist ==
  /\ kind = "proxy_pool"
  /\ blacklist # {}
  /\ blacklist' = {}
  /\ served' = <<>>
  /\ changed' = NoChange
  /\ UNCHANGED <<ioNoClock, now, notProxy, proxies, index, snapshot, heap,
                 handles>>

\* the record of a call of replace_entries or merge_entries
Change(op, given) == [op |-> op, given |-> given]

\* ReplaceEntries that leaves index_ where it was
ReplaceEntriesKeepsIndex(entries) ==
  /\ kind = "proxy_pool"
  /\ SwapSnapshot(entries)
  /\ served' = <<>>
  /\ changed' = Change("replace", entries)
  /\ UNCHANGED <<ioNoClock, now, notProxy, blacklist, handles, index>>

\* replace_entries(entries)
ReplaceEntries(entries) ==
  /\ kind = "proxy_pool"
  /\ SwapSnapshot(entries)
  /\ index' = 0
  /\ served' = <<>>
  /\ changed' = Change("replace", entries)
  /\ UNCHANGED <<ioNoClock, now, notProxy, blacklist, handles>>

\* Merged that appends every addition
MergedAppendsAll(current, additions) == current \o additions

\* the loop of merge_entries: each addition not seen yet is appended
RECURSIVE Merged(_, _)
Merged(current, additions) ==
  IF additions = <<>> THEN current
  ELSE IF \E n \in 1..Len(current) : current[n] = Head(additions)
    THEN Merged(current, Tail(additions))
    ELSE Merged(Append(current, Head(additions)), Tail(additions))

\* merge_entries(additions)
MergeEntries(additions) ==
  /\ kind = "proxy_pool"
  /\ Len(Merged(proxies, additions)) <= MaxEntries
  /\ SwapSnapshot(Merged(proxies, additions))
  /\ index' = IF Len(proxies') = 0 THEN 0 ELSE index % Len(proxies')
  /\ served' = <<>>
  /\ changed' = Change("merge", additions)
  /\ UNCHANGED <<ioNoClock, now, notProxy, blacklist, handles>>

\* the steady clock advances
ProxyTick ==
  /\ kind = "proxy_pool"
  /\ now < MaxClock
  /\ now' = now + 1
  /\ UNCHANGED <<ioNoClock, notProxy, proxyVars>>

InitProxy ==
  /\ kind = "proxy_pool"
  /\ proxies \in ProxyLists
  /\ blacklist = {} /\ index = 0 /\ served = <<>>
  /\ OneSnapshot
  /\ inner = "any"
  /\ duration = 0 /\ initial_delay = 0 /\ interval = 0 /\ max_attempts = 0
  /\ should_retry = {} /\ satisfied = {} /\ retry_on_error = {}
  /\ Defaults /\ faults = FALSE
  /\ PwsDefaults /\ RunDefaults /\ AggDefaults /\ HttpDefaults
  /\ MgrDefaults /\ SideDefaults

NextProxy ==
  \/ ProxyNext
  \/ \E proxy \in Proxies, timeout \in 1..MaxTimeout :
       ProxyBlacklist(proxy, timeout)
  \/ ProxyResetBlacklist
  \/ \E entries \in Additions : ReplaceEntries(entries)
  \/ \E additions \in Additions : MergeEntries(additions)
  \/ ProxyTick

SpecProxy == InitProxy /\ [][NextProxy]_vars

\* ---------------------------------------------------------------- C19
\* C19: over successive calls of next() with the entry list and the
\* blacklist unchanged, and the same entries blacklisted throughout, every
\* call returns an entry that is not blacklisted, and two calls that
\* return the same entry are at least as many calls apart as there are
\* such entries, so each of them is returned once before any is returned
\* again; when every entry is blacklisted, or there is none, the call
\* returns null after passing over each entry once at most.
ProxyRoundRobin ==
  kind = "proxy_pool" =>
    \A i \in 1..Len(served) :
      /\ IF served[i].eligible = {}
           THEN /\ served[i].ret = 0
                /\ Len(served[i].skipped) <= Len(proxies)
                /\ \A m, n \in 1..Len(served[i].skipped) :
                     served[i].skipped[m].at = served[i].skipped[n].at
                       => m = n
           ELSE served[i].ret \in served[i].eligible
      /\ \A j \in (i + 1)..Len(served) :
           (/\ \A m \in i..j : served[m].eligible = served[i].eligible
            /\ served[j].ret = served[i].ret
            /\ served[i].ret # 0)
             => j - i >= Cardinality(served[i].eligible)

\* of three entries the second is blacklisted: four calls returned the
\* first, the third, the first and the third
ProxyTwoRounds ==
  /\ kind = "proxy_pool"
  /\ proxies = <<"a", "b", "a">>
  /\ Len(served) = 4
  /\ \A i \in 1..4 : served[i].eligible = {1, 3}
  /\ <<served[1].ret, served[2].ret, served[3].ret, served[4].ret>>
       = <<1, 3, 1, 3>>

\* ---------------------------------------------------------------- C20
\* C20 as stated: an entry blacklisted with expiry E is returned by next()
\* only strictly after E.
ReturnedOnlyAfterExpiry ==
  kind = "proxy_pool" =>
    \A i \in 1..Len(served) :
      (served[i].ret # 0 /\ served[i].expiry # None)
        => served[i].at > served[i].expiry[1]

\* C20, amended: an entry blacklisted with expiry E is never returned by
\* next() before E, and is eligible again from E on: a call at E or later
\* does not pass it over.
BlacklistedUntilExpiry ==
  kind = "proxy_pool" =>
    \A i \in 1..Len(served) :
      /\ (served[i].ret # 0 /\ served[i].expiry # None)
           => served[i].at >= served[i].expiry[1]
      /\ \A n \in 1..Len(served[i].skipped) :
           /\ served[i].skipped[n].expiry # None
           /\ served[i].at < served[i].skipped[n].expiry[1]

\* an entry was passed over one second before its expiry and returned by
\* the call made at its expiry
ReturnedAtExpiry ==
  /\ kind = "proxy_pool"
  /\ Len(served) = 2
  /\ Len(served[1].skipped) = 1
  /\ served[1].skipped[1].expiry = Some(served[1].at + 1)
  /\ served[2].ret = served[1].skipped[1].at
  /\ served[2].expiry = Some(served[2].at)

\* ---------------------------------------------------------------- C21
\* the place in the list of the first entry a call of next() looked at,
\* 0 when the list was empty
FirstScanned(s) ==
  IF s.skipped # <<>> THEN s.skipped[1].at ELSE s.ret

\* a call of replace_entries sets the list to the one given and index_ to
\* 0 and leaves the blacklist as it was
ReplaceSwaps ==
  (changed'.op = "replace" /\ now' = now) =>
    /\ proxies' = changed'.given
    /\ index' = 0
    /\ blacklist' = blacklist

\* the call of next() that follows a call of replace_entries looks at the
\* first entry of the list first and returns no entry whose expiry in the
\* blacklist is still ahead
NextAfterReplace ==
  (changed.op = "replace" /\ Len(served') = 1) =>
    /\ FirstScanned(served'[1]) = IF proxies = <<>> THEN 0 ELSE 1
    /\ \A q \in 1..Len(proxies) :
         IsBlacklisted(blacklist, proxies[q])
           => (q \notin served'[1].eligible /\ served'[1].ret # q)

\* C21: replace_entries(list) puts the list given in place of the one
\* held, sets index_ to 0 and leaves the blacklist as it was; the call of
\* next() that follows looks at the first entry of the new list first, and
\* an entry of the new list equal to one still blacklisted is not
\* returned by it.
ReplaceResetsCursor == [][ReplaceSwaps /\ NextAfterReplace]_vars

\* the list was replaced by one of two entries whose first entry had been
\* blacklisted before and still is
ReplacedWithBlacklisted ==
  /\ kind = "proxy_pool" /\ changed.op = "replace"
  /\ Len(proxies) = 2 /\ proxies[1] # proxies[2]
  /\ IsBlacklisted(blacklist, proxies[1])
  /\ ~IsBlacklisted(blacklist, proxies[2])
  /\ index = 0 /\ served = <<>>

\* ---------------------------------------------------------------- C22
\* the entries of a list
Entries(list) == {list[n] : n \in 1..Len(list)}

\* the place of the first entry of list equal to x
FirstAt(list, x) == CHOOSE n \in 1..Len(list) :
                      list[n] = x /\ \A m \in 1..(n - 1) : list[m] # x

\* a call of merge_entries, from the list and index_ held before to those
\* held after
MergeAppends ==
  (changed'.op = "merge" /\ now' = now) =>
    LET cur == proxies
        add == changed'.given
        new == proxies'
        tail == (Len(cur) + 1)..Len(new)
    IN /\ Len(new) >= Len(cur)
       /\ SubSeq(new, 1, Len(cur)) = cur
       /\ Entries(new) = Entries(cur) \cup Entries(add)
       /\ \A m \in tail : new[m] \notin Entries(cur)
       /\ \A m, n \in tail :
            m < n => FirstAt(add, new[m]) < FirstAt(add, new[n])
       /\ index' = IF new = <<>> THEN 0 ELSE index % Len(new)

\* C22: after merge_entries(additions) the list begins with the list held
\* before, the entries after it are the additions equal to none of those,
\* each once, in the order in which they first come in the additions, and
\* index_ is the one held before, modulo the new size; after every call
\* index_ is 0 or less than the size of the list.
MergeIsUnion ==
  [][MergeAppends /\ (index' = 0 \/ index' < Len(proxies'))]_vars

\* an addition given twice was merged into a list of two equal entries:
\* it was appended once, and index_ is at 1 as before
MergedOnce ==
  /\ kind = "proxy_pool" /\ changed.op = "merge"
  /\ changed.given = <<"b", "b">>
  /\ proxies = <<"a", "a", "b">>
  /\ index = 1 /\ served = <<>>

\* ------------------------------------------------- pointers into the list
\* callers that keep what next() and borrow_proxy() return, while the list
\* is replaced and merged
InitSnap == InitProxy

NextSnap ==
  \/ ProxyNextHeld
  \/ BorrowProxy
  \/ \E i \in 1..MaxHandles : ReleaseHandle(i)
  \/ \E entries \in Additions : ReplaceEntries(entries)
  \/ \E additions \in Additions : MergeEntries(additions)

SpecSnap == InitSnap /\ [][NextSnap]_vars

\* the ProxyList a pointer points into is alive and holds, at the place
\* the pointer names, the entry it held when the pointer was made
PointsToSame(h) ==
  \/ h.block = snapshot /\ h.at <= Len(proxies) /\ proxies[h.at] = h.was
  \/ /\ h.block \in DOMAIN heap
     /\ h.at <= Len(heap[h.block]) /\ heap[h.block][h.at] = h.was

SharedHandlesStayValid ==
  kind = "proxy_pool" =>
    \A i \in 1..Len(handles) : handles[i].owns => PointsToSame(handles[i])

\* ============================================================= NO_PROXY
\* should_bypass_env_proxy_for_url of http_request_io
\* (src/include/http_client_monad.hpp); strings are sequences of characters

MaxHost == 3

Whitespace == {" ", "\t", "\n", "\r"}

Digits == {"8"}

\* std::tolower of a character
ToLowerChar(c) == CASE c = "A" -> "a" [] c = "B" -> "b" [] OTHER -> c

\* to_lower(s)
ToLower(s) == [n \in 1..Len(s) |-> ToLowerChar(s[n])]

\* trim(s)
RECURSIVE Trim(_)
Trim(s) ==
  IF s # <<>> /\ Head(s) \in Whitespace THEN Trim(Tail(s))
  ELSE IF s # <<>> /\ s[Len(s)] \in Whitespace
    THEN Trim(SubSeq(s, 1, Len(s) - 1))
    ELSE s

\* s.find(c): the first place of c in s, from 1; 0 for npos
Find(s, c) ==
  IF \E n \in 1..Len(s) : s[n] = c
    THEN CHOOSE n \in 1..Len(s) : s[n] = c /\ \A m \in 1..(n - 1) : s[m] # c
    ELSE 0

\* s.rfind(c): the last place of c in s, from 1; 0 for npos
RFind(s, c) ==
  IF \E n \in 1..Len(s) : s[n] = c
    THEN CHOOSE n \in 1..Len(s) :
           s[n] = c /\ \A m \in (n + 1)..Len(s) : s[m] # c
    ELSE 0

\* the token without the numeric port it may end with
StripPort(token) ==
  LET pos == RFind(token, ":")
      port_part == SubSeq(token, pos + 1, Len(token))
      all_digits == port_part # <<>>
                      /\ \A n \in 1..Len(port_part) : port_part[n] \in Digits
  IN IF pos # 0 /\ all_digits THEN Trim(SubSeq(token, 1, pos - 1))
                              ELSE token

\* whether a token of the list, other than "*", matches the host
TokenMatches(token, host_lc) ==
  LET token_lc == ToLower(token)
      require_dot == Head(token_lc) = "."
      suffix == IF require_dot THEN Tail(token_lc) ELSE token_lc
      dot_pos == Len(host_lc) - Len(suffix)
  IN /\ token_lc # <<>>
     /\ \/ host_lc = token_lc
        \/ /\ suffix # <<>> /\ Len(host_lc) > Len(suffix)
           /\ SubSeq(host_lc, dot_pos + 1, Len(host_lc)) = suffix
           /\ ~require_dot \/ (dot_pos > 0 /\ host_lc[dot_pos] = ".")

\* the loop over the comma-separated list
RECURSIVE AnyTokenMatches(_, _)
AnyTokenMatches(list, host_lc) ==
  IF list = <<>> THEN FALSE
  ELSE LET comma == Find(list, ",")
           token == Trim(IF comma = 0 THEN list
                                      ELSE SubSeq(list, 1, comma - 1))
       IN IF token # <<>>
               /\ (token = <<"*">> \/ TokenMatches(StripPort(token), host_lc))
            THEN TRUE
            ELSE IF comma = 0 THEN FALSE
            ELSE AnyTokenMatches(SubSeq(list, comma + 1, Len(list)), host_lc)

\* should_bypass_env_proxy_for_url(url), env the value of NO_PROXY, or of
\* no_proxy when that is not set or empty; <<>> when neither is
ShouldBypass(env, u) ==
  IF env = <<>> \/ u.host = <<>> THEN FALSE
  ELSE AnyTokenMatches(env, ToLower(u.host))

\* what the evaluation of the lambda leaves alone
notHttp == <<ioVars, pwsVars, runVars, aggVars, proxyVars, mgrVars, sideVars,
             exchange,
             ex_proxy, pool_proxy, server, st, session, sent, answers,
             outcome>>

HostChars == {"a", "b", "A", "."}

\* host names: labels that are not empty, with '.' between them
HostNames ==
  {h \in UNION {[1..n -> HostChars] : n \in 1..MaxHost} :
     /\ h[1] # "." /\ h[Len(h)] # "."
     /\ \A n \in 1..(Len(h) - 1) : ~(h[n] = "." /\ h[n + 1] = ".")}

\* tokens of NO_PROXY: a host name, or one after a '.'
Tokens ==
  HostNames \cup {<<".">> \o h : h \in {x \in HostNames : Len(x) < MaxHost}}

\* the lambda is called with ex->url
BypassCheck ==
  /\ kind = "no_proxy"
  /\ bypass = <<>>
  /\ bypass' = <<ShouldBypass(no_proxy, url)>>
  /\ UNCHANGED <<notHttp, url, no_proxy>>

InitNoProxy ==
  /\ kind = "no_proxy"
  /\ \E h \in HostNames : url = Url("https", h, <<"/">>, <<>>)
  /\ no_proxy \in Tokens
  /\ bypass = <<>>
  /\ NoRequest /\ MgrDefaults /\ SideDefaults
  /\ inner = "any"
  /\ duration = 0 /\ initial_delay = 0 /\ interval = 0 /\ max_attempts = 0
  /\ should_retry = {} /\ satisfied = {} /\ retry_on_error = {}
  /\ Defaults /\ faults = FALSE
  /\ PwsDefaults /\ RunDefaults /\ AggDefaults /\ ProxyDefaults

NextNoProxy == BypassCheck

SpecNoProxy == InitNoProxy /\ [][NextNoProxy]_vars

\* ---------------------------------------------------------------- C29
\* h is a proper subdomain of d: labels, then a '.', then d
IsSubdomainOf(h, d) ==
  /\ Len(h) >= Len(d) + 2
  /\ SubSeq(h, Len(h) - Len(d) + 1, Len(h)) = d
  /\ h[Len(h) - Len(d)] = "."

\* C29: a NO_PROXY token that starts with '.' matches a host exactly when
\* the host is a proper subdomain of what follows the '.'; a token that
\* does not matches a host exactly when the host is equal to it or is a
\* subdomain of it; letters are compared without regard to case.
NoProxyTokenRule ==
  (kind = "no_proxy" /\ bypass # <<>>) =>
    LET t == ToLower(no_proxy)
        h == ToLower(url.host)
    IN bypass[1] = IF Head(t) = "." THEN IsSubdomainOf(h, Tail(t))
                                    ELSE h = t \/ IsSubdomainOf(h, t)

\* the part of it that is about the tokens that start with '.'
NoProxyDottedTokenRule ==
  (kind = "no_proxy" /\ bypass # <<>> /\ Head(no_proxy) = ".") =>
    bypass[1] = IsSubdomainOf(ToLower(url.host), Tail(ToLower(no_proxy)))

\* ------------------------------------------------------------------
\* HttpClientManager::http_request, http_request_pooled and the
\* http_request_io built on them
\* ------------------------------------------------------------------

\* RedirectState::redirects_left as http_request sets it
RedirectsLeft == 5

\* the error code of a session whose transport failed
TransportError == 7

\* is_redirect_status
IsRedirectStatus(status_code) ==
  \/ status_code = 301 \/ status_code = 302 \/ status_code = 303
  \/ status_code = 307 \/ status_code = 308

\* a Location value by the form resolve_redirect_url tells apart, and by
\* whether urls::parse_uri accepts the URI built of it
Location(form, scheme, host, path, parses) ==
  [form |-> form, scheme |-> scheme, host |-> host, path |-> path,
   parses |-> parses]

\* parse_abs of the URI scheme://host path
ParseAbs(scheme, host, path, parses) ==
  IF parses THEN Some(Url(scheme, host, path, <<>>)) ELSE None

\* resolve_redirect_url
ResolveRedirectUrl(base, location) ==
  CASE location.form = "empty" -> None
    [] location.form = "absolute" ->
         ParseAbs(location.scheme, location.host, location.path,
                  location.parses)
    [] location.form = "scheme_relative" ->
         ParseAbs(base.scheme, location.host, location.path, location.parses)
    [] location.form = "path" ->
         ParseAbs(base.scheme, base.host, location.path, location.parses)
    [] OTHER ->
         LET slash == RFind(base.path, "/")
             dir == IF slash = 0 THEN <<"/">> ELSE SubSeq(base.path, 1, slash)
             lead == IF dir = <<>> \/ dir[1] # "/" THEN <<"/">> ELSE <<>>
         IN ParseAbs(base.scheme, base.host, lead \o dir \o location.path,
                     location.parses)

\* the target update_request_target_for_url gives a request: the path, or
\* "/" for none, and "?" and the query when there is one
Target(u) ==
  (IF u.path = <<>> THEN <<"/">> ELSE u.path)
    \o (IF u.query # <<>> THEN <<"?">> \o u.query ELSE <<>>)

\* a response by status and Location header (<<>> for none)
Response(status, location) == [status |-> status, location |-> location]

\* what a session hands its callback
Answer(resp, ec) == [resp |-> resp, ec |-> ec]

\* a request a session was given, with the URL and the proxy it was
\* built with
Sent(via, u, req, proxy) ==
  [via |-> via, url |-> u, request |-> req, proxy |-> proxy]

\* a ProxySetting by the fields that are looked at
ProxySetting(host, from_env) == [host |-> host, from_env |-> from_env]

\* the step of http_request: a copy of the template with the target of the
\* current URL goes to a new session
RedirectStep(state) ==
  Sent("session", state.url,
       [state.req_template EXCEPT !.target = Target(state.url)],
       state.proxy_setting)

\* the body of http_request: the RedirectState and the first step
StartRequest(u, req, follow_redirect, proxy) ==
  LET state == [url |-> u, req_template |-> req,
                follow_redirect |-> follow_redirect,
                proxy_setting |-> proxy, redirects_left |-> RedirectsLeft]
  IN /\ st' = state
     /\ sent' = Append(sent, RedirectStep(state))
     /\ session' = "session"

\* what the calls leave alone but for httpVars
notRequest == <<ioVars, pwsVars, runVars, aggVars, proxyVars, mgrVars,
               sideVars>>

HttpRequest ==
  /\ kind = "http_request"
  /\ session = "none"
  /\ StartRequest(url, exchange.request, exchange.follow_redirect, ex_proxy)
  /\ UNCHANGED <<notRequest, url, no_proxy, bypass, exchange, ex_proxy,
                 pool_proxy, server, answers, outcome>>

HttpRequestPooledAlways ==
  /\ kind = "http_request_pooled"
  /\ session = "none"
  /\ sent' = Append(sent, Sent("pool", url, exchange.request, ex_proxy))
  /\ session' = "pooled"
  /\ UNCHANGED <<notRequest, url, no_proxy, bypass, exchange, ex_proxy,
                 pool_proxy, server, st, answers, outcome>>

HttpRequestPooled ==
  /\ kind = "http_request_pooled"
  /\ session = "none"
  /\ IF exchange.follow_redirect
       THEN StartRequest(url, exchange.request, TRUE, ex_proxy)
       ELSE /\ sent' = Append(sent, Sent("pool", url, exchange.request,
                                         ex_proxy))
            /\ session' = "pooled"
            /\ st' = st
  /\ UNCHANGED <<notRequest, url, no_proxy, bypass, exchange, ex_proxy,
                 pool_proxy, server, answers, outcome>>

\* the proxy http_request_io goes on with: one inherited from the
\* environment is dropped when NO_PROXY says so
ProxyLeftAnyOrigin(proxy, env, u) ==
  IF proxy # None /\ ShouldBypass(env, u) THEN None ELSE proxy

ProxyLeft(proxy, env, u) ==
  IF proxy # None /\ proxy[1].from_env /\ ShouldBypass(env, u)
    THEN None
    ELSE proxy

\* what the lambda returned when the condition came to evaluate it
Consulted(proxy, env, u) ==
  IF proxy # None /\ proxy[1].from_env
    THEN <<ShouldBypass(env, u)>>
    ELSE <<>>

\* the request http_request_io passes on
Prepared(ex, u) ==
  IF ex.no_modify_req
    THEN ex.request
    ELSE [ex.request EXCEPT !.user_agent = "Boost.Beast",
                            !.target = Target(u)]

HttpRequestIo ==
  /\ kind = "http_request_io"
  /\ session = "none"
  /\ LET borrowed == IF ex_proxy = None /\ pool_proxy # None
                       THEN pool_proxy
                       ELSE ex_proxy
     IN /\ bypass' = Consulted(borrowed, no_proxy, url)
        /\ ex_proxy' = ProxyLeft(borrowed, no_proxy, url)
        /\ StartRequest(url, Prepared(exchange, url),
                        exchange.follow_redirect, ex_proxy')
  /\ UNCHANGED <<notRequest, url, no_proxy, exchange, pool_proxy, server,
                 answers, outcome>>

\* the callback http_request_io gives http_request
IoResultDropsCode(a) ==
  IF a.ec = 0 /\ a.resp # None
    THEN Ok(a.resp[1].status)
    ELSE Err(0, "http_request_io failed")

IoResult(a) ==
  IF a.ec = 0 /\ a.resp # None
    THEN Ok(a.resp[1].status)
    ELSE Err(a.ec, "http_request_io failed")

\* the user callback is called with the answer
Deliver(a) ==
  /\ answers' = Append(answers, a)
  /\ outcome' = IF kind = "http_request_io"
                  THEN Append(outcome, IoResult(a))
                  ELSE outcome
  /\ session' = "done"

\* whether the callback of the step goes on to the next URL
FollowsWithoutLimit(state, a) ==
  /\ a.ec = 0 /\ a.resp # None
  /\ state.follow_redirect
  /\ state.req_template.method \in {"GET", "HEAD"}
  /\ IsRedirectStatus(a.resp[1].status)
  /\ a.resp[1].location # None
  /\ ResolveRedirectUrl(state.url, a.resp[1].location[1]) # None

FollowsAnyMethod(state, a) ==
  /\ a.ec = 0 /\ a.resp # None
  /\ state.follow_redirect /\ state.redirects_left > 0
  /\ IsRedirectStatus(a.resp[1].status)
  /\ a.resp[1].location # None
  /\ ResolveRedirectUrl(state.url, a.resp[1].location[1]) # None

Follows(state, a) ==
  /\ a.ec = 0 /\ a.resp # None
  /\ state.follow_redirect /\ state.redirects_left > 0
  /\ state.req_template.method \in {"GET", "HEAD"}
  /\ IsRedirectStatus(a.resp[1].status)
  /\ a.resp[1].location # None
  /\ ResolveRedirectUrl(state.url, a.resp[1].location[1]) # None

\* the response of the server to a request of the URL
ServerAnswer(u) ==
  IF u.path \in DOMAIN server
    THEN Answer(Some(server[u.path]), 0)
    ELSE Answer(Some(Response(404, None)), 0)

\* what a session may hand its callback: the response with code 0, or no
\* response with the code of the failure, 0 being kept for success
SessionAnswers(u) == {ServerAnswer(u), Answer(None, TransportError)}

\* SessionDone telling the user callback of every hop
SessionDoneTellsEachHop(a) ==
  /\ session = "session"
  /\ a \in SessionAnswers(st.url)
  /\ IF Follows(st, a)
       THEN LET state ==
                  [st EXCEPT
                     !.url = ResolveRedirectUrl(st.url,
                                                a.resp[1].location[1])[1],
                     !.redirects_left = st.redirects_left - 1]
            IN /\ st' = state
               /\ sent' = Append(sent, RedirectStep(state))
               /\ answers' = Append(answers, a)
               /\ UNCHANGED <<session, outcome>>
       ELSE /\ Deliver(a)
            /\ UNCHANGED <<st, sent>>
  /\ UNCHANGED <<notRequest, url, no_proxy, bypass, exchange, ex_proxy,
                 pool_proxy, server>>

\* the session of the current step completes: the callback of the step
SessionDone(a) ==
  /\ session = "session"
  /\ a \in SessionAnswers(st.url)
  /\ IF Follows(st, a)
       THEN LET state ==
                  [st EXCEPT
                     !.url = ResolveRedirectUrl(st.url,
                                                a.resp[1].location[1])[1],
                     !.redirects_left = st.redirects_left - 1]
            IN /\ st' = state
               /\ sent' = Append(sent, RedirectStep(state))
               /\ UNCHANGED <<session, answers, outcome>>
       ELSE /\ Deliver(a)
            /\ UNCHANGED <<st, sent>>
  /\ UNCHANGED <<notRequest, url, no_proxy, bypass, exchange, ex_proxy,
                 pool_proxy, server>>

\* the pooled session completes: its callback is the caller's
PooledDone(a) ==
  /\ session = "pooled"
  /\ a \in SessionAnswers(url)
  /\ Deliver(a)
  /\ UNCHANGED <<notRequest, url, no_proxy, bypass, exchange, ex_proxy,
                 pool_proxy, server, st, sent>>

\* the paths of the URLs a chain may come to
PathA == <<"/", "a">>

PathB == <<"/", "d", "/", "b">>

PathC == <<"/", "d", "/", "a">>

Paths == {PathA, PathB, PathC}

\* the responses of the servers
Responses ==
  { Response(200, None),
    Response(304, Some(Location("path", "", <<>>, PathA, TRUE))),
    Response(302, None),
    Response(302, Some(Location("path", "", <<>>, PathA, TRUE))),
    Response(301, Some(Location("absolute", "https", <<"b">>, PathB, TRUE))),
    Response(303, Some(Location("absolute", "http", <<>>, <<>>, FALSE))),
    Response(307, Some(Location("empty", "", <<>>, <<>>, TRUE))),
    Response(308, Some(Location("relative", "", <<>>, <<"a">>, TRUE))),
    Response(302, Some(Location("scheme_relative", "", <<"b">>, PathC, TRUE)))
  }

Methods == {"GET", "HEAD", "POST", "PUT", "DELETE"}

\* the proxies of the calls
ExplicitProxy == ProxySetting("p", FALSE)

EnvProxy == ProxySetting("e", TRUE)

OtherProxy == ProxySetting("q", FALSE)

\* what the specifications of the calls leave unused
NoIo ==
  /\ inner = "any"
  /\ duration = 0 /\ initial_delay = 0 /\ interval = 0 /\ max_attempts = 0
  /\ should_retry = {} /\ satisfied = {} /\ retry_on_error = {}
  /\ Defaults /\ faults = FALSE
  /\ PwsDefaults /\ RunDefaults /\ AggDefaults /\ ProxyDefaults

\* what the specifications of the calls leave unused
NoStop == NoIo /\ MgrDefaults /\ SideDefaults

\* http_request or http_request_pooled of a server that redirects
InitRedirect ==
  /\ kind \in {"http_request", "http_request_pooled"}
  /\ url = Url("http", <<"a">>, PathA, <<>>)
  /\ no_proxy = <<>> /\ bypass = <<>>
  /\ \E m \in Methods, f \in BOOLEAN :
       exchange = Exchange(Request(m, <<"/">>, <<"a">>), f, FALSE, None)
  /\ ex_proxy = None /\ pool_proxy = None
  /\ server \in [Paths -> Responses]
  /\ st = NoState /\ session = "none"
  /\ sent = <<>> /\ answers = <<>> /\ outcome = <<>>

\* http_request_io of a server that answers
InitRequestIo ==
  /\ kind = "http_request_io"
  /\ \E h \in {<<"a">>, <<"b">>}, p \in {<<>>, PathA}, q \in {<<>>, <<"x">>} :
       url = Url("http", h, p, q)
  /\ no_proxy \in {<<>>, <<"a">>, <<"*">>}
  /\ bypass = <<>>
  /\ \E t \in {<<"/">>, <<"/", "c">>}, h \in {<<"a">>, <<"c">>},
        f \in BOOLEAN, n \in BOOLEAN,
        p \in {None, Some(OtherProxy), Some(EnvProxy)} :
       /\ exchange = Exchange(Request("GET", t, h), f, n, p)
       /\ ex_proxy = p
  /\ pool_proxy \in {None, Some(ExplicitProxy), Some(EnvProxy)}
  /\ server \in [{PathA} -> {Response(200, None),
                            Response(302, Some(Location("path", "", <<>>,
                                                        PathB, TRUE)))}]
  /\ st = NoState /\ session = "none"
  /\ sent = <<>> /\ answers = <<>> /\ outcome = <<>>

InitHttp == (InitRedirect \/ InitRequestIo) /\ NoStop

NextHttp ==
  \/ HttpRequest
  \/ HttpRequestPooled
  \/ HttpRequestIo
  \/ session = "session" /\ \E a \in SessionAnswers(st.url) : SessionDone(a)
  \/ \E a \in SessionAnswers(url) : PooledDone(a)

SpecHttp == InitHttp /\ [][NextHttp]_vars

\* C24: a call of http_request follows at most five redirects: it hands
\* at most six requests to sessions, and when the sixth is answered by a
\* redirect too, that response goes to the user callback and nothing more
\* is requested
AtMostFiveRedirects ==
  /\ Len(sent) <= RedirectsLeft + 1
  /\ (st # NoState) => st.redirects_left = RedirectsLeft + 1 - Len(sent)
  /\ (Len(sent) = RedirectsLeft + 1 /\ session = "done") =>
       /\ Len(answers) = 1
       /\ answers[1] \in SessionAnswers(sent[Len(sent)].url)

\* a cycle used up the five redirects and its last redirect was delivered
CycleDelivered ==
  /\ Len(sent) = RedirectsLeft + 1
  /\ session = "done"
  /\ answers[1].resp # None
  /\ IsRedirectStatus(answers[1].resp[1].status)
  /\ \E i, j \in 1..Len(sent) : i < j /\ sent[i].url = sent[j].url

\* C25: a request whose method is neither GET nor HEAD is never followed:
\* one request goes out, and the response to it, a 3xx included, is what
\* the user callback gets
OnlyGetAndHeadFollowed ==
  (st # NoState /\ st.req_template.method \notin {"GET", "HEAD"}) =>
    /\ Len(sent) = 1
    /\ st.url = url
    /\ session = "done" =>
         /\ Len(answers) = 1
         /\ answers[1] \in SessionAnswers(url)

\* a POST with follow_redirect set got a redirect it could have followed
PostRedirectDelivered ==
  /\ st # NoState
  /\ st.req_template.method = "POST"
  /\ st.follow_redirect
  /\ session = "done"
  /\ Len(sent) = 1
  /\ answers = <<ServerAnswer(url)>>
  /\ IsRedirectStatus(answers[1].resp[1].status)
  /\ answers[1].resp[1].location # None
  /\ ResolveRedirectUrl(url, answers[1].resp[1].location[1]) # None

\* the one request of a call went through the connection pool as the
\* caller built it, and its answer is what the caller got
OneRoundTripThroughPool ==
  /\ Len(sent) = 1
  /\ sent[1] = Sent("pool", url, exchange.request, ex_proxy)
  /\ session = "done" =>
       /\ Len(answers) = 1
       /\ answers[1] \in SessionAnswers(url)

\* C26, as claimed: every call of http_request_pooled makes one round-trip
\* through the connection pool and delivers its response
PooledAlwaysOneRoundTrip ==
  (kind = "http_request_pooled" /\ session # "none") =>
    OneRoundTripThroughPool

\* C26, amended: a call of http_request_pooled with follow_redirect unset
\* makes one round-trip through the connection pool and delivers its
\* response, a 3xx included; with follow_redirect set the call is that of
\* http_request: sessions of its own carry the requests and redirects are
\* followed
PooledUnlessFollowing ==
  (kind = "http_request_pooled" /\ session # "none") =>
    IF exchange.follow_redirect
      THEN /\ st # NoState
           /\ \A i \in 1..Len(sent) : sent[i].via = "session"
           /\ session # "pooled"
      ELSE /\ OneRoundTripThroughPool
           /\ st = NoState

\* a pooled call got a redirect it could have followed and delivered it
PooledRedirectDelivered ==
  /\ kind = "http_request_pooled"
  /\ ~exchange.follow_redirect
  /\ exchange.request.method = "GET"
  /\ session = "done"
  /\ sent = <<Sent("pool", url, exchange.request, ex_proxy)>>
  /\ answers = <<ServerAnswer(url)>>
  /\ IsRedirectStatus(answers[1].resp[1].status)
  /\ answers[1].resp[1].location # None
  /\ ResolveRedirectUrl(url, answers[1].resp[1].location[1]) # None

\* C27: with no_modify_req set, every request that reaches a session
\* carries the target and the Host header the caller set
NoModifyReqKept ==
  (kind = "http_request_io" /\ exchange.no_modify_req) =>
    \A i \in 1..Len(sent) :
      /\ sent[i].request.target = exchange.request.target
      /\ sent[i].request.host = exchange.request.host

\* with no_modify_req set, http_request_io itself hands the request on as
\* the caller built it, and the Host header reaches the session unchanged
NoModifyReqKeptByIo ==
  (kind = "http_request_io" /\ exchange.no_modify_req /\ st # NoState) =>
    /\ st.req_template = exchange.request
    /\ \A i \in 1..Len(sent) : sent[i].request.host = exchange.request.host

\* the proxy of the exchange when NO_PROXY comes into question: the one
\* the caller set, or else the one borrowed of the pool
ChosenProxy == IF exchange.proxy # None THEN exchange.proxy ELSE pool_proxy

\* C28: http_request_io evaluates NO_PROXY only for a proxy that has
\* from_env set, and a proxy that has not goes with every request of the
\* call, whatever NO_PROXY says of the host
NoProxyOnlyForEnvProxy ==
  (kind = "http_request_io" /\ st # NoState) =>
    /\ bypass # <<>> => (ChosenProxy # None /\ ChosenProxy[1].from_env)
    /\ (ChosenProxy # None /\ ~ChosenProxy[1].from_env) =>
         /\ ex_proxy = ChosenProxy
         /\ \A i \in 1..Len(sent) : sent[i].proxy = ChosenProxy

\* a request to a host NO_PROXY names went through the configured proxy
ExplicitProxyUsedForNoProxyHost ==
  /\ kind = "http_request_io"
  /\ ShouldBypass(no_proxy, url)
  /\ exchange.proxy = None
  /\ pool_proxy = Some(ExplicitProxy)
  /\ sent # <<>>
  /\ sent[1].proxy = Some(ExplicitProxy)
  /\ bypass = <<>>

\* ------------------------------------------------------------------
\* HttpClientManager::stop
\* ------------------------------------------------------------------

\* the most worker threads of a manager (threads_)
MaxThreads == 2

\* the most threads that call stop()
MaxCallers == 2

\* the most calls of stop() by one thread, the destructor's included
MaxStops == 2

\* a thread that may call stop(): where it is in the call, the worker it
\* is to join next, and the calls it has returned from
Caller(at, t, calls) == [at |-> at, t |-> t, calls |-> calls]

\* the caller is inside a call of stop()
InStop(c) == c \in DOMAIN callers /\ callers[c].at # "out"

\* what stop() leaves alone
notMgr == <<ioVars, pwsVars, runVars, aggVars, proxyVars, httpVars,
           sideVars>>

\* stop() is entered: stopped_.exchange(true) without the return
StopEnterUnguarded(c) ==
  /\ kind = "stop"
  /\ c \in DOMAIN callers
  /\ callers[c].at = "out"
  /\ callers[c].calls < MaxStops
  /\ stopped' = TRUE
  /\ callers' = [callers EXCEPT ![c].at = "reset"]
  /\ UNCHANGED <<notMgr, work_guard, ioc_stopped, thread_pool, teardown>>

\* stop() is entered: stopped_.exchange(true), and the return of the call
\* that found the flag set
StopEnter(c) ==
  /\ kind = "stop"
  /\ c \in DOMAIN callers
  /\ callers[c].at = "out"
  /\ callers[c].calls < MaxStops
  /\ stopped' = TRUE
  /\ IF stopped
       THEN callers' = [callers EXCEPT ![c].calls = @ + 1]
       ELSE callers' = [callers EXCEPT ![c].at = "reset"]
  /\ UNCHANGED <<notMgr, work_guard, ioc_stopped, thread_pool, teardown>>

\* work_guard->reset()
StopReset(c) ==
  /\ InStop(c)
  /\ callers[c].at = "reset"
  /\ work_guard' = "reset"
  /\ teardown' = [teardown EXCEPT !.resets = @ + 1]
  /\ callers' = [callers EXCEPT ![c].at = "stop"]
  /\ UNCHANGED <<notMgr, stopped, ioc_stopped, thread_pool>>

\* ioc->stop()
StopIoc(c) ==
  /\ InStop(c)
  /\ callers[c].at = "stop"
  /\ ioc_stopped' = TRUE
  /\ teardown' = [teardown EXCEPT !.stops = @ + 1]
  /\ callers' = [callers EXCEPT ![c].at = "join", ![c].t = 1]
  /\ UNCHANGED <<notMgr, stopped, work_guard, thread_pool>>

\* one round of the loop over thread_pool: a joinable thread is joined
\* once it has exited, and the caller waits until then
StopJoin(c) ==
  /\ InStop(c)
  /\ callers[c].at = "join"
  /\ callers[c].t <= Len(thread_pool)
  /\ LET t == callers[c].t
     IN IF thread_pool[t] = "joined"
          THEN UNCHANGED <<thread_pool, teardown>>
          ELSE /\ thread_pool[t] = "exited"
               /\ thread_pool' = [thread_pool EXCEPT ![t] = "joined"]
               /\ teardown' = [teardown EXCEPT !.joins[t] = @ + 1]
  /\ callers' = [callers EXCEPT ![c].t = @ + 1]
  /\ UNCHANGED <<notMgr, stopped, work_guard, ioc_stopped>>

\* the loop is over and the call that tore down returns
StopReturn(c) ==
  /\ InStop(c)
  /\ callers[c].at = "join"
  /\ callers[c].t > Len(thread_pool)
  /\ callers' = [callers EXCEPT ![c].at = "out", ![c].calls = @ + 1]
  /\ teardown' = [teardown EXCEPT !.returned = @ + 1]
  /\ UNCHANGED <<notMgr, stopped, work_guard, ioc_stopped, thread_pool>>

\* ioc->run() returns in a worker thread: the io_context was stopped, or
\* it ran out of work with the work guard gone
WorkerExit(t) ==
  /\ kind = "stop"
  /\ t \in DOMAIN thread_pool
  /\ thread_pool[t] = "running"
  /\ ioc_stopped \/ work_guard = "reset"
  /\ thread_pool' = [thread_pool EXCEPT ![t] = "exited"]
  /\ UNCHANGED <<notMgr, stopped, work_guard, ioc_stopped, callers,
                 teardown>>

\* a manager as its constructor leaves it, and the threads that will call
\* stop()
InitStop ==
  /\ kind = "stop"
  /\ stopped = FALSE /\ work_guard = "held" /\ ioc_stopped = FALSE
  /\ \E n \in 1..MaxThreads :
       /\ thread_pool = [t \in 1..n |-> "running"]
       /\ teardown = [NoTeardown EXCEPT !.joins = [t \in 1..n |-> 0]]
  /\ \E k \in 1..MaxCallers : callers = [c \in 1..k |-> Caller("out", 0, 0)]
  /\ NoIo /\ HttpDefaults /\ SideDefaults

\* the steps of a call of stop() after its first
StopStep(c) == StopReset(c) \/ StopIoc(c) \/ StopJoin(c) \/ StopReturn(c)

NextStop ==
  \/ \E c \in 1..MaxCallers : StopEnter(c)
  \/ \E c \in 1..MaxCallers : StopStep(c)
  \/ \E t \in 1..MaxThreads : WorkerExit(t)

SpecStop == InitStop /\ [][NextStop]_vars

\* the threads are scheduled: a caller inside stop() goes on when it can,
\* and a worker leaves run() when it may
SpecStopLive ==
  /\ SpecStop
  /\ \A c \in 1..MaxCallers : WF_vars(StopStep(c))
  /\ \A t \in 1..MaxThreads : WF_vars(WorkerExit(t))

\* each step of the teardown was performed at most once, and once a call
\* that tore down has returned, each was performed exactly once
TeardownOnce ==
  /\ teardown.resets <= 1
  /\ teardown.stops <= 1
  /\ teardown.returned <= 1
  /\ \A t \in DOMAIN thread_pool : teardown.joins[t] <= 1
  /\ \A c \in DOMAIN callers : (callers[c].calls > 0) => stopped
  /\ teardown.returned = 1 =>
       /\ teardown.resets = 1 /\ teardown.stops = 1
       /\ \A t \in DOMAIN thread_pool :
            teardown.joins[t] = 1 /\ thread_pool[t] = "joined"

\* C30: however many threads call stop() and however often, the work
\* guard is released once, the io_context stopped once and each worker
\* thread joined once, and every call of stop() returns
StopIsIdempotent ==
  /\ [](kind = "stop" => TeardownOnce)
  /\ \A c \in 1..MaxCallers : InStop(c) ~> ~InStop(c)

\* two threads called stop() twice each, one of the calls tore down two
\* workers, and all four calls have returned
StoppedByTwo ==
  /\ kind = "stop"
  /\ Len(callers) = 2 /\ Len(thread_pool) = 2
  /\ \A c \in 1..2 : callers[c] = Caller("out", 3, 2) \/
                     callers[c] = Caller("out", 0, 2)
  /\ teardown.returned = 1

MaxOption == 3

\* the options a caller may pass, the non-positive ones included
RawOptions ==
  {Options(i, m, j) : i \in -1..MaxOption, m \in -1..MaxOption,
                      j \in -1..MaxOption}

\* Sanitize
Sanitize(options) ==
  LET initial == IF options.initial_delay <= 0 THEN 1
                 ELSE options.initial_delay
      max == IF options.max_delay < initial THEN initial
             ELSE options.max_delay
      jitter == IF options.jitter < 0 THEN 0 ELSE options.jitter
  IN Options(initial, max, jitter)

\* the values SampleJitter may return
SampleJitter(options) ==
  IF options.jitter <= 0 THEN {0} ELSE 0..options.jitter

\* the delay NextDelay moves to
SteppedUncapped(options, current) ==
  IF current <= 0 THEN options.initial_delay ELSE current * 2

Stepped(options, current) ==
  IF current <= 0
    THEN options.initial_delay
    ELSE IF options.max_delay < current * 2 THEN options.max_delay
         ELSE current * 2

\* what the backoff leaves alone
notBackoff == <<ioVars, pwsVars, runVars, aggVars, proxyVars, clientVars,
                handlers, lockVars, downstream, step_owners>>

UpdateOptions(options) ==
  /\ kind = "backoff"
  /\ options_' = Sanitize(options)
  /\ current_delay_' = IF current_delay_ > options_'.max_delay
                         THEN options_'.max_delay
                         ELSE current_delay_
  /\ next_delay' = <<>>
  /\ UNCHANGED notBackoff

BackoffReset ==
  /\ kind = "backoff"
  /\ current_delay_' = 0
  /\ next_delay' = <<>>
  /\ UNCHANGED <<notBackoff, options_>>

BackoffNextDelay(sample) ==
  /\ kind = "backoff"
  /\ sample \in SampleJitter(options_)
  /\ current_delay_' = Stepped(options_, current_delay_)
  /\ next_delay' = <<[was |-> current_delay_,
                      ret |-> current_delay_' + sample]>>
  /\ UNCHANGED <<notBackoff, options_>>

InitBackoff ==
  /\ kind = "backoff"
  /\ \E options \in RawOptions : options_ = Sanitize(options)
  /\ current_delay_ = 0
  /\ next_delay = <<>>
  /\ NoHandlers /\ LockDefaults /\ OwnDefaults
  /\ NoIo /\ HttpDefaults /\ MgrDefaults

NextBackoff ==
  \/ \E options \in RawOptions : UpdateOptions(options)
  \/ BackoffReset
  \/ \E sample \in 0..MaxOption : BackoffNextDelay(sample)

SpecBackoff == InitBackoff /\ [][NextBackoff]_vars

\* C32: a call of NextDelay leaves the current delay at initial_delay if
\* it was zero and at min(max_delay, 2 * current) otherwise, and returns
\* a value from the new current delay up to it plus jitter
NextDelayDoubles ==
  (kind = "backoff" /\ next_delay # <<>>) =>
    LET was == next_delay[1].was
        ret == next_delay[1].ret
    IN /\ was = 0 => current_delay_ = options_.initial_delay
       /\ was # 0 =>
            /\ current_delay_ <= options_.max_delay
            /\ current_delay_ <= 2 * was
            /\ current_delay_ = options_.max_delay \/ current_delay_ = 2 * was
       /\ current_delay_ <= ret
       /\ ret <= current_delay_ + options_.jitter

\* a call doubled the delay, another was cut at max_delay, with jitter
DoubledAndCapped ==
  /\ kind = "backoff"
  /\ options_ = Options(1, 3, 2)
  /\ next_delay = <<[was |-> 2, ret |-> 5]>>
  /\ current_delay_ = 3

\* C37: whatever calls of NextDelay, Reset and UpdateOptions were made,
\* the current delay is zero or lies between initial_delay and max_delay
\* of the sanitized options, and a value NextDelay returned is at least
\* initial_delay and at most max_delay plus jitter
BackoffWithinOptions ==
  kind = "backoff" =>
    /\ \/ current_delay_ = 0
       \/ /\ options_.initial_delay <= current_delay_
          /\ current_delay_ <= options_.max_delay
    /\ next_delay # <<>> =>
         /\ options_.initial_delay <= next_delay[1].ret
         /\ next_delay[1].ret <= options_.max_delay + options_.jitter

\* the sanitized options are in order, the current delay is never above
\* max_delay, and without a call of UpdateOptions it is never below
\* initial_delay either
BackoffCapped ==
  kind = "backoff" =>
    /\ options_.initial_delay >= 1
    /\ options_.max_delay >= options_.initial_delay
    /\ options_.jitter >= 0
    /\ 0 <= current_delay_ /\ current_delay_ <= options_.max_delay
    /\ next_delay # <<>> =>
         next_delay[1].ret <= options_.max_delay + options_.jitter

\* ------------------------------------------------------------------
\* IO<T>::timeout on an io_context that several threads run
\* ------------------------------------------------------------------

\* what the handlers of timeout leave alone
notRace == <<pwsVars, runVars, aggVars, proxyVars, clientVars, backoffVars,
             lockVars, downstream, step_owners,
             kind, inner, faults, pc, duration, initial_delay,
             interval, max_attempts, should_retry, satisfied,
             retry_on_error, attempt, current_delay, delivered, timer_fired,
             result, counter, closure, cleanup_posted, now>>

\* run: the timer is armed and the wrapped IO started
RaceRun ==
  /\ pc = "constructed" /\ kind = "timeout_mt"
  /\ pc' = "running"
  /\ fired' = FALSE
  /\ io' = "pending"
  /\ attempt' = 1
  /\ timer' = Armed(duration)
  /\ log' = log \o <<EvRun, Ev("wait", 1, duration, NoResult, Success),
                     EvStart(1)>>
  /\ UNCHANGED <<extVars, kind, inner, faults, duration, initial_delay,
                 interval, max_attempts, should_retry, satisfied,
                 retry_on_error, current_delay, delivered, timer_fired,
                 result, counter, closure, cleanup_posted, now, handlers,
                 lockVars>>

\* a thread enters the wait handler and evaluates `if (*fired) return`
TimerRead ==
  /\ pc = "running" /\ kind = "timeout_mt"
  /\ handlers["timer"].at = "idle"
  /\ LET ec == IF timer.st = "cancelled" \/ faults THEN OperationAborted
               ELSE Success
     IN /\ handlers' =
             [handlers EXCEPT
                !["timer"] = Handler(IF fired THEN "done" ELSE "read",
                                     fired, ec)]
        /\ log' = Append(log, EvTimer(ec))
  /\ timer' = [timer EXCEPT !.st = "done"]
  /\ UNCHANGED <<notRace, fired, io>>

\* the rest of the wait handler: *fired = true, and the callback unless
\* the wait failed
TimerFinish ==
  /\ handlers["timer"].at = "read"
  /\ fired' = TRUE
  /\ log' = IF ~Failed(handlers["timer"].arg)
              THEN Append(log, EvCb(TimedOut))
              ELSE log
  /\ handlers' = [handlers EXCEPT !["timer"].at = "done"]
  /\ UNCHANGED <<notRace, timer, io>>

\* a thread enters the callback given to self.run and evaluates
\* `if (*fired) return`
ResultRead(r) ==
  /\ pc = "running" /\ kind = "timeout_mt"
  /\ handlers["result"].at = "idle"
  /\ io = "pending" /\ r \in AnyResults
  /\ io' = "completed"
  /\ handlers' =
       [handlers EXCEPT
          !["result"] = Handler(IF fired THEN "done" ELSE "read", fired, r)]
  /\ log' = Append(log, EvEnd(1, r))
  /\ timer' = IF fired THEN Cancelled(timer) ELSE timer
  /\ UNCHANGED <<notRace, fired>>

\* the rest of that callback: *fired = true, cancel_timer, and the
\* callback with the result
ResultFinish ==
  /\ handlers["result"].at = "read"
  /\ fired' = TRUE
  /\ timer' = Cancelled(timer)
  /\ log' = Append(log, EvCb(handlers["result"].arg))
  /\ handlers' = [handlers EXCEPT !["result"].at = "done"]
  /\ UNCHANGED <<notRace, io>>

InitRace ==
  /\ kind = "timeout_mt"
  /\ inner = "any"
  /\ duration \in 0..MaxDelay
  /\ initial_delay = 0 /\ interval = 0 /\ max_attempts = 0
  /\ should_retry = {} /\ satisfied = {} /\ retry_on_error = {}
  /\ Defaults
  /\ PwsDefaults /\ RunDefaults /\ AggDefaults /\ Unused

NextRace ==
  \/ RaceRun
  \/ TimerRead
  \/ TimerFinish
  \/ \E r \in AnyResults : ResultRead(r)
  \/ ResultFinish

SpecRace == InitRace /\ [][NextRace]_vars

\* C33: when the wait handler, called with success, and the callback of
\* the wrapped IO have both run, on whichever threads, exactly one of
\* them has delivered to the callback of the timeout
ExactlyOneDelivers ==
  ( /\ kind = "timeout_mt"
    /\ handlers["timer"].at = "done" /\ handlers["result"].at = "done"
    /\ ~Failed(handlers["timer"].arg) ) =>
    Len(Cbs) = 1

\* when one of the two had finished before the other read *fired, exactly
\* one of them has delivered
ExactlyOneDeliversInTurn ==
  ( /\ kind = "timeout_mt"
    /\ handlers["timer"].at = "done" /\ handlers["result"].at = "done"
    /\ ~Failed(handlers["timer"].arg)
    /\ handlers["timer"].saw \/ handlers["result"].saw ) =>
    Len(Cbs) = 1

\* ------------------------------------------------------------------
\* the release of the self-referential closures of retry and poll
\* ------------------------------------------------------------------

\* C34: once retry_exponential_if has delivered its final outcome, the
\* try_run closure has been released
RetryReleasedOnceDelivered ==
  (kind = "retry" /\ Len(Cbs) > 0) => closure = RetryCleanup

\* once retry_exponential_if has delivered the result of an attempt, the
\* try_run closure has been released
RetryReleasedAfterAttempt ==
  (kind = "retry" /\ Len(Cbs) > 0 /\ Cbs[1].r \in AnyResults) =>
    closure = RetryCleanup

\* C35: at the moment retry_exponential_if or poll_if invokes the final
\* callback, its closure has already been released
ReleasedBeforeCallback ==
  (kind \in {"retry", "poll"} /\ Len(Cbs) > 0) => closure = "released"

\* poll_if has posted the release to the io_context whenever its final
\* callback has been invoked and the closure is still there
PollReleasePosted ==
  (kind = "poll" /\ Len(Cbs) > 0) =>
    (closure = "released" \/ cleanup_posted)

\* ---------------------------------------------------------------
\* ProxyPool called from several threads
\* ---------------------------------------------------------------

\* the threads that call the pool
PoolThreads == {"t1", "t2"}

\* the lists given to replace_entries and merge_entries
PoolArgs == {<<>>, <<"b">>, <<"b", "a">>}

\* a call of an operation of the pool with its argument
PoolCall(op, arg) == [op |-> op, arg |-> arg]

\* the calls a thread can make
PoolCalls ==
  {PoolCall(op, <<>>) :
     op \in {"next", "reset_blacklist", "empty", "size", "entries"}}
    \cup {PoolCall(op, arg) : op \in {"replace_entries", "merge_entries"},
                              arg \in PoolArgs}
    \cup {PoolCall("blacklist", <<p>>) : p \in Proxies}

\* proxies_, index_ and blacklist_
PoolState == [proxies |-> proxies, index |-> index, blacklist |-> blacklist]

\* a thread that is not calling the pool
IdleCall ==
  [op |-> "none", arg |-> <<>>, at |-> "idle", current |-> <<>>,
   ret |-> <<>>, expect |-> <<>>]

\* the body of an operation run without a break on the pool in state s:
\* the state it leaves and what it returns
Apply(c, s) ==
  CASE c.op = "next" ->
         IF Len(s.proxies) = 0
           THEN [state |-> s, ret |-> <<>>]
           ELSE LET bl == CleanExpired(s.blacklist)
                    sc == Scan(s.proxies, bl, s.index, 0)
                IN [state |-> [proxies |-> s.proxies, index |-> sc.index,
                               blacklist |-> bl],
                    ret |-> IF sc.ret = 0 THEN <<>>
                            ELSE <<s.proxies[sc.ret]>>]
    [] c.op = "replace_entries" ->
         [state |-> [s EXCEPT !.proxies = c.arg, !.index = 0], ret |-> <<>>]
    [] c.op = "merge_entries" ->
         LET list == Merged(s.proxies, c.arg)
         IN [state |-> [s EXCEPT !.proxies = list,
                                 !.index = IF Len(list) = 0 THEN 0
                                           ELSE s.index % Len(list)],
             ret |-> <<>>]
    [] c.op = "blacklist" ->
         [state |-> [s EXCEPT !.blacklist =
                       {x \in s.blacklist : x[1] # c.arg[1]}
                         \cup {<<c.arg[1], now + MaxTimeout>>}],
          ret |-> <<>>]
    [] c.op = "reset_blacklist" ->
         [state |-> [s EXCEPT !.blacklist = {}], ret |-> <<>>]
    [] c.op = "empty" -> [state |-> s, ret |-> <<Len(s.proxies) = 0>>]
    [] c.op = "size" -> [state |-> s, ret |-> <<Len(s.proxies)>>]
    [] c.op = "entries" -> [state |-> s, ret |-> s.proxies]

\* what the calls of the pool leave alone
notLock == <<ioNoClock, now, pwsVars, runVars, aggVars, clientVars,
             backoffVars, handlers, downstream, step_owners, served,
             changed, snapshot, heap, handles>>

\* thread t calls operation c and reaches its lock_guard
PoolEnter(t, c) ==
  /\ kind = "proxy_pool_mt"
  /\ pool_calls[t].at = "idle"
  /\ pool_calls' = [pool_calls EXCEPT ![t] =
                      [IdleCall EXCEPT !.op = c.op, !.arg = c.arg,
                                       !.at = "waiting"]]
  /\ UNCHANGED <<notLock, proxies, index, blacklist, mutex, serial>>

\* a lock_guard that does not wait for the mutex
CanLockAnyway(t) == TRUE

\* std::lock_guard<std::mutex> lock(mutex_) returns once no thread holds
\* the mutex
CanLock(t) == mutex = "free"

\* the lock_guard of the operation thread t called is constructed
PoolLock(t) ==
  /\ kind = "proxy_pool_mt"
  /\ pool_calls[t].at = "waiting"
  /\ CanLock(t)
  /\ mutex' = t
  /\ pool_calls' = [pool_calls EXCEPT ![t].at = "locked"]
  /\ UNCHANGED <<notLock, proxies, index, blacklist, serial>>

\* the first statements of the body: replace_entries stores the new list,
\* merge_entries copies the current one, next() returns a null handle for
\* an empty pool and cleans the blacklist otherwise; the other operations
\* are one statement
PoolFirst(t) ==
  LET c == pool_calls[t]
      two == \/ c.op \in {"replace_entries", "merge_entries"}
             \/ c.op = "next" /\ Len(proxies) # 0
      done == Apply(c, PoolState)
  IN /\ kind = "proxy_pool_mt"
     /\ c.at = "locked"
     /\ proxies' = IF c.op = "replace_entries" THEN c.arg ELSE proxies
     /\ blacklist' = IF c.op = "next" /\ Len(proxies) # 0
                       THEN CleanExpired(blacklist)
                       ELSE IF two THEN blacklist ELSE done.state.blacklist
     /\ pool_calls' =
          [pool_calls EXCEPT
             ![t].at = IF two THEN "half" ELSE "finished",
             ![t].current = IF c.op = "merge_entries" THEN proxies ELSE <<>>,
             ![t].ret = IF two THEN <<>> ELSE done.ret]
     /\ UNCHANGED <<notLock, index, mutex, serial>>

\* the rest of the body: replace_entries resets index_, merge_entries
\* stores the merged copy and brings index_ into it, next() scans
PoolSecond(t) ==
  LET c == pool_calls[t]
      list == Merged(c.current, c.arg)
      sc == Scan(proxies, blacklist, index % Len(proxies), 0)
  IN /\ kind = "proxy_pool_mt"
     /\ c.at = "half"
     /\ proxies' = IF c.op = "merge_entries" THEN list ELSE proxies
     /\ index' =
          CASE c.op = "replace_entries" -> 0
            [] c.op = "merge_entries" ->
                 IF Len(list) = 0 THEN 0 ELSE index % Len(list)
            [] c.op = "next" -> IF Len(proxies) = 0 THEN index ELSE sc.index
     /\ pool_calls' =
          [pool_calls EXCEPT
             ![t].at = "finished",
             ![t].ret = IF c.op = "next" /\ Len(proxies) # 0 /\ sc.ret # 0
                          THEN <<proxies[sc.ret]>>
                          ELSE <<>>]
     /\ UNCHANGED <<notLock, blacklist, mutex, serial>>

\* the operation returns and its lock_guard is destroyed
PoolUnlock(t) ==
  /\ kind = "proxy_pool_mt"
  /\ pool_calls[t].at = "finished"
  /\ mutex' = "free"
  /\ serial' = Apply(pool_calls[t], serial).state
  /\ pool_calls' =
       [pool_calls EXCEPT ![t].at = "done",
                          ![t].expect = Apply(pool_calls[t], serial).ret]
  /\ UNCHANGED <<notLock, proxies, index, blacklist>>

\* a pool with some entries, a cursor in them and a blacklist, that two
\* threads are about to call
InitLock ==
  /\ kind = "proxy_pool_mt"
  /\ proxies \in Additions
  /\ index \in 0..(IF Len(proxies) = 0 THEN 0 ELSE Len(proxies) - 1)
  /\ blacklist \in {{}, {<<"a", 0>>}, {<<"a", MaxTimeout>>}}
  /\ served = <<>>
  /\ OneSnapshot
  /\ mutex = "free"
  /\ pool_calls = [t \in PoolThreads |-> IdleCall]
  /\ serial = PoolState
  /\ inner = "any"
  /\ duration = 0 /\ initial_delay = 0 /\ interval = 0 /\ max_attempts = 0
  /\ should_retry = {} /\ satisfied = {} /\ retry_on_error = {}
  /\ Defaults /\ faults = FALSE
  /\ PwsDefaults /\ RunDefaults /\ AggDefaults /\ HttpDefaults
  /\ MgrDefaults /\ BackoffDefaults /\ NoHandlers /\ OwnDefaults

NextLock ==
  \/ \E t \in PoolThreads, c \in PoolCalls : PoolEnter(t, c)
  \/ \E t \in PoolThreads : PoolLock(t)
  \/ \E t \in PoolThreads : PoolFirst(t)
  \/ \E t \in PoolThreads : PoolSecond(t)
  \/ \E t \in PoolThreads : PoolUnlock(t)

SpecLock == InitLock /\ [][NextLock]_vars

\* the threads that are between the construction and the destruction of
\* their lock_guard
InBody == {t \in PoolThreads :
             pool_calls[t].at \in {"locked", "half", "finished"}}

StepReleasedOnceDelivered ==
  (kind \in {"collect", "all_ok"} /\ Len(Cbs) > 0) => step_owners = {}

\* the step closure holds itself from the run on, and that is all that
\* holds it once the result is delivered
StepHeldByItself ==
  (kind \in {"collect", "all_ok"} /\ pc = "running") =>
    /\ "self" \in step_owners
    /\ Len(Cbs) > 0 => step_owners = {"self"}

\* ---------------------------------------------------------------
\* map, then, catch_then and poll_with_state with a callback that throws
\* ---------------------------------------------------------------

\* the combinators that invoke the callback inside a try block
ThrowKinds == {"map", "then", "catch_then", "poll_with_state"}

\* e.what() of the std::exception the callback throws
CbWhat == "cb failed"

\* the callback given to run: the calls, by number, at which it throws,
\* the results it was invoked with, and whether an exception left the
\* handler of the combinator
Downstream(throws, got, escaped) ==
  [throws |-> throws, got |-> got, escaped |-> escaped]

\* the code of the Error the catch block of combinator k makes
CatchCode(k) == IF k = "poll_with_state" THEN -1 ELSE ThrowCode(k)

\* cb(r) outside any try block: an exception leaves the handler
Plain(d, r) ==
  Downstream(d.throws, Append(d.got, r), (Len(d.got) + 1) \in d.throws)

\* try { ... cb(r) ... } catch (const std::exception& e) { cb(Err) }: the
\* catch block invokes cb again when the first call threw; usable is
\* whether cb still holds its target there
Tried(d, r, k, usable) ==
  IF 1 \notin d.throws THEN Downstream(d.throws, <<r>>, FALSE)
  ELSE IF ~usable THEN Downstream(d.throws, <<r>>, TRUE)
  ELSE Downstream(d.throws, <<r, Err(CatchCode(k), CbWhat)>>,
                  2 \in d.throws)

\* what the specification of the throwing callback leaves alone
notThrow == <<timingVars, kind, log, pwsVars, runVars, proxyVars,
              clientVars, backoffVars, handlers, lockVars, step_owners,
              items, out>>

\* the thunk: prev, or the IO job returned, is run
ThrowRun ==
  /\ kind \in ThrowKinds /\ downstream # <<>>
  /\ pc = "constructed"
  /\ pc' = "running"
  /\ io' = "pending"
  /\ UNCHANGED <<notThrow, idx, downstream>>

\* the callback given to prev (map, then, catch_then) or to the IO of the
\* job (poll_with_state, decide answering done) receives r. map invokes cb
\* with fn's value ret inside the try. then and catch_then run the IO fn
\* returned with std::move(cb) inside the try: when that IO completes at
\* once (sync) with next, cb is invoked there, and the catch block finds
\* a moved-from cb, which still holds its target (keeps) or is empty and
\* throws std::bad_function_call. poll_with_state runs the job's IO inside
\* the try of do_attempt: when it completes at once, handle_result
\* invokes cb there
ThrowOnPrev(r, ret, sync, next, keeps) ==
  /\ kind \in ThrowKinds /\ downstream # <<>>
  /\ pc = "running" /\ io = "pending" /\ idx = 0
  /\ CASE kind = "map" ->
            /\ downstream' = IF r.ok
                               THEN Tried(downstream, Ok(ret), kind, TRUE)
                               ELSE Plain(downstream, r)
            /\ io' = "idle" /\ idx' = 2
       [] kind = "poll_with_state" ->
            /\ downstream' = IF sync
                               THEN Tried(downstream, r, kind, TRUE)
                               ELSE Plain(downstream, r)
            /\ io' = "idle" /\ idx' = 2
       [] OTHER ->
            IF ~InvokesFn(kind, r)
              THEN /\ downstream' = Plain(downstream, r)
                   /\ io' = "idle" /\ idx' = 2
              ELSE IF sync
                THEN /\ downstream' = Tried(downstream, next, kind, keeps)
                     /\ io' = "idle" /\ idx' = 2
                ELSE /\ io' = "pending" /\ idx' = 1
                     /\ UNCHANGED downstream
  /\ UNCHANGED <<notThrow, pc>>

\* the IO fn returned to then or catch_then completes later, from the
\* executor: cb is invoked outside the try
ThrowOnNext(r) ==
  /\ kind \in {"then", "catch_then"} /\ downstream # <<>>
  /\ pc = "running" /\ io = "pending" /\ idx = 1
  /\ downstream' = Plain(downstream, r)
  /\ io' = "idle" /\ idx' = 2
  /\ UNCHANGED <<notThrow, pc>>

InitThrow ==
  /\ kind \in ThrowKinds
  /\ \E throws \in SUBSET {1, 2} :
       downstream = Downstream(throws, <<>>, FALSE)
  /\ step_owners = {}
  /\ inner = "any"
  /\ duration = 0 /\ initial_delay = 0 /\ interval = 0 /\ max_attempts = 0
  /\ should_retry = {} /\ satisfied = {} /\ retry_on_error = {}
  /\ Defaults /\ faults = FALSE
  /\ PwsDefaults /\ RunDefaults /\ AggDefaults
  /\ ProxyDefaults /\ HttpDefaults /\ MgrDefaults
  /\ BackoffDefaults /\ NoHandlers /\ LockDefaults

NextThrow ==
  \/ ThrowRun
  \/ \E r \in AnyResults, ret \in Values, sync \in BOOLEAN,
        next \in AnyResults, keeps \in BOOLEAN :
       ThrowOnPrev(r, ret, sync, next, keeps)
  \/ \E r \in AnyResults : ThrowOnNext(r)

SpecThrow == InitThrow /\ [][NextThrow]_vars

\* C38: a callback that throws while map, then, catch_then or
\* poll_with_state invokes it is not invoked a second time by that
\* combinator
ThrowingCbInvokedOnce ==
  (kind \in ThrowKinds /\ downstream # <<>>) => Len(downstream.got) <= 1

\* the callback is invoked a second time only by a catch block, after its
\* first call threw, and never a third time
SecondCallFromCatch ==
  (kind \in ThrowKinds /\ downstream # <<>>) =>
    /\ Len(downstream.got) <= 2
    /\ Len(downstream.got) = 2 =>
         /\ 1 \in downstream.throws
         /\ downstream.got[2] = Err(CatchCode(kind), CbWhat)

\* ---------------------------------------------------------------
\* http_request: the user callback
\* ---------------------------------------------------------------

\* the user callback of http_request is invoked at most once, when the
\* chain ends, with what the session of the last request handed over; the
\* requests before it were all answered by redirects
OneAnswerOfLastHop ==
  st # NoState =>
    /\ Len(answers) <= 1
    /\ (session = "done") <=> (Len(answers) = 1)
    /\ Len(answers) = 1 =>
         /\ answers[1] \in SessionAnswers(sent[Len(sent)].url)
         /\ \A i \in 1..(Len(sent) - 1) :
              IsRedirectStatus(ServerAnswer(sent[i].url).resp[1].status)

\* no request is made in or after the step that invokes the user callback
NoRequestOnceAnswered ==
  (st # NoState /\ (Len(answers) > 0 \/ answers' # answers)) => sent' = sent

\* C39: every call of http_request invokes the user callback exactly once
\* when its chain ends: with the final response that is not a redirect,
\* with the last 3xx, or with the first transport error, at whichever hop
\* it occurs, and no request is made after that
CallbackOncePerRequest ==
  []OneAnswerOfLastHop /\ [][NoRequestOnceAnswered]_vars

\* the first hop was redirected and the second failed: the error went to
\* the user callback
ErrorAtSecondHop ==
  /\ kind = "http_request"
  /\ st # NoState
  /\ Len(sent) = 2
  /\ session = "done"
  /\ answers = <<Answer(None, TransportError)>>

====
